---------------------------- MODULE Spec2Model ----------------------------
(***************************************************************************)
(* Item reconciliation (core/utils.py: compare_items) and the OCR worker   *)
(* pool (parsers/ocr_pool.py: OCRWorker, OCRPool) of the Supply invoice    *)
(* intake system.                                                          *)
(*                                                                         *)
(* Strings are sequences of one-character strings; "nbsp" stands for the   *)
(* no-break space U+00A0.  A Python value is a record [t, s, n]: t is its  *)
(* type ("absent" for a key the dict lacks, "none", "str", "int"), s the   *)
(* characters of a str and n the value of an int.                          *)
(***************************************************************************)
EXTENDS Integers, Sequences, FiniteSets, TLC

VARIABLES
    app_json,      \* compare_items: the application document
    inv_json,      \* compare_items: the invoice document
    cmp_result,    \* what the first call compare_items(app_json, inv_json) gave
    cmp_again,     \* what a second call with the same arguments gave
    max_workers,   \* OCRPool.max_workers
    _executor,     \* OCRPool._executor: "None", or the executor: "running", "shutdown"
    _workers,      \* OCRPool._workers: the roster, a sequence of OCRWorker objects (ids)
    _lock,         \* OCRPool._lock: 0 when free, else the client thread holding it
    heap,          \* the OCRWorker objects: id -> [processed_count, _reader, built]
    tasks,         \* the futures of the executor: id -> [owner, img, worker, pc, attempt, loaded]
    queue,         \* the executor's work queue: ids of the tasks no thread has taken
    pc,            \* per client thread: where it is in its call ("idle" between calls)
    loc,           \* per client thread: the local variables of its call
    ret,           \* per client thread: how its last call ended
    batches,       \* the number of batches process_images has accepted so far
    phase,         \* the pool's life so far: "new", "started", "shut_down"
    roster_id,     \* which list object OCRPool._workers is: the lists made so far
    file_paths,    \* parse_multiple_pdfs: the files, each as its environment describes it
    use_ocr_pool,  \* parse_multiple_pdfs: the argument use_ocr_pool
    results,       \* parse_multiple_pdfs: the list results
    parsed,        \* how the parse_pdf call for each file so far ended
    pdf_returned,  \* parse_multiple_pdfs has returned results
    image,         \* ImagePreprocessor: the image given
    max_width,     \* resize_if_needed: the argument max_width
    max_height,    \* resize_if_needed: the argument max_height
    factors,       \* enhance_image: the arguments contrast, brightness, sharpness
    resized,       \* what resize_if_needed(image, max_width, max_height) gave
    enhanced,      \* what enhance_image(image, contrast, brightness, sharpness) gave
    _ARTIFACTS,    \* services/artifacts.py: the registry, a set of str
    fs,            \* the file system: absolute path -> "file", "dir" or "missing"
    calls,         \* the calls made on the registry so far, in order
    report,        \* what the last cleanup() returned, and the paths it went through
    _global_ocr_pool, \* ocr_pool._global_ocr_pool: 0 for None, or the id of a pool
    _pool_lock,    \* ocr_pool._pool_lock: 0 when free, else the thread holding it
    pools,         \* the pools get_global_ocr_pool has constructed, by id
    stage,         \* per thread: where it is in its call on the global pool
    args,          \* per thread: the arguments of its get_global_ocr_pool call
    got,           \* per thread: what its last call on the global pool gave
    first_config,  \* the arguments of the first get_global_ocr_pool since the last shutdown
    shutdowns,     \* the number of shutdown_global_ocr_pool calls so far
    pipeline_files, \* process_files_parallel: the files, each as what parsing it gives
    jobs,          \* process_files_parallel: the process_single_file call of each file
    _start_times,  \* PerformanceLogger._start_times has the key "single_file_processing"
    pipeline_results, \* process_files_parallel: the list results, each with its file
    collected,     \* the futures as_completed has yielded
    pipeline_returned, \* process_files_parallel has returned results
    file_contents, \* run_processing: the list file_contents handed to the LLM
    retry_args,    \* retry_with_backoff: max_attempts, base_delay, max_delay, backoff_factor, jitter, exceptions
    retry_attempt, \* wrapper: the loop variable attempt
    retry_delay,   \* wrapper: the variable delay (milliseconds)
    retry_trail,   \* wrapper: the calls of func and the sleeps so far, in order
    retry_pc,      \* wrapper: where it is ("call", "sleep", "done")
    retry_ret,     \* wrapper: what it returned or raised
    runs,          \* per executor thread: its process_image call on the one worker
    ocr_start_times, \* perf_logger._start_times of ocr_pool has the key "ocr_worker_<id>"
    secrets,       \* config._SECRETS: the value of "OCR_DENOISE" in secrets.json
    environ,       \* os.environ: the value of OCR_DENOISE
    OCR_DENOISE,   \* config.OCR_DENOISE, absent until config is imported
    preprocessed   \* what preprocess_for_ocr(image) gave

cmp_vars == <<app_json, inv_json, cmp_result, cmp_again>>

pool_vars ==
    <<max_workers, _executor, _workers, _lock, heap, tasks, queue, pc, loc, ret, batches, phase,
      roster_id>>

pdf_vars == <<file_paths, use_ocr_pool, results, parsed, pdf_returned>>

image_vars == <<image, max_width, max_height, factors, resized, enhanced>>

artifacts_vars == <<_ARTIFACTS, fs, calls, report>>

global_vars ==
    <<_global_ocr_pool, _pool_lock, pools, stage, args, got, first_config, shutdowns>>

pipeline_vars ==
    <<pipeline_files, jobs, _start_times, pipeline_results, collected, pipeline_returned,
      file_contents>>

retry_vars == <<retry_args, retry_attempt, retry_delay, retry_trail, retry_pc, retry_ret>>

worker_vars == <<runs, ocr_start_times>>

preprocess_vars == <<secrets, environ, OCR_DENOISE, preprocessed>>

vars ==
    <<cmp_vars, pool_vars, pdf_vars, image_vars, artifacts_vars, global_vars, pipeline_vars,
      retry_vars, worker_vars, preprocess_vars>>

-----------------------------------------------------------------------------
(* Python values                                                           *)

Absent == [t |-> "absent", s |-> <<>>, n |-> 0]
None == [t |-> "none", s |-> <<>>, n |-> 0]
Str(s) == [t |-> "str", s |-> s, n |-> 0]
Int_(n) == [t |-> "int", s |-> <<>>, n |-> n]

\* Code points of the characters the model uses (str comparison is by code point).
Ord(c) ==
    CASE c = " " -> 32
      [] c = "+" -> 43
      [] c = "," -> 44
      [] c = "-" -> 45
      [] c = "." -> 46
      [] c = "/" -> 47
      [] c = "0" -> 48
      [] c = "1" -> 49
      [] c = "2" -> 50
      [] c = "5" -> 53
      [] c = "A" -> 65
      [] c = "B" -> 66
      [] c = "a" -> 97
      [] c = "b" -> 98
      [] c = "x" -> 120
      [] c = "nbsp" -> 160

\* str.strip() takes these off: the space, the no-break space, the newline
IsSpace(c) == c \in {" ", "nbsp", "nl"}

IsDigit(c) == c \in {"0", "1", "2", "5"}

DigitVal(c) == Ord(c) - 48

DigitChar(d) == CHOOSE c \in {"0", "1", "2", "5"} : DigitVal(c) = d

\* str.lower() of one character
LowerChar(c) == IF c = "A" THEN "a" ELSE IF c = "B" THEN "b" ELSE c

\* truth value of a Python value, as `x or ''` and `if not x` test it
Truthy(x) ==
    CASE x.t = "none" -> FALSE
      [] x.t = "str" -> x.s # <<>>
      [] x.t = "int" -> x.n # 0

\* x or ''
OrEmpty(x) == IF Truthy(x) THEN x ELSE Str(<<>>)

RECURSIVE IntDigits(_)
IntDigits(n) ==
    IF n < 10 THEN <<DigitChar(n)>> ELSE Append(IntDigits(n \div 10), DigitChar(n % 10))

\* str(x) of a value
PyStr(x) ==
    CASE x.t = "str" -> x.s
      [] x.t = "int" -> IF x.n < 0 THEN <<"-">> \o IntDigits(-x.n) ELSE IntDigits(x.n)

RECURSIVE LStrip(_)
LStrip(s) == IF s # <<>> /\ IsSpace(Head(s)) THEN LStrip(Tail(s)) ELSE s

RECURSIVE RStrip(_)
RStrip(s) ==
    IF s # <<>> /\ IsSpace(s[Len(s)]) THEN RStrip(SubSeq(s, 1, Len(s) - 1)) ELSE s

\* str.strip()
Strip(s) == RStrip(LStrip(s))

\* str.lower()
Lower(s) == [i \in 1..Len(s) |-> LowerChar(s[i])]

\* s.replace(c, '')
RECURSIVE Remove(_, _)
Remove(s, c) ==
    IF s = <<>> THEN <<>>
    ELSE IF Head(s) = c THEN Remove(Tail(s), c) ELSE <<Head(s)>> \o Remove(Tail(s), c)

\* s.replace(c, d) for single characters
Replace(s, c, d) == [i \in 1..Len(s) |-> IF s[i] = c THEN d ELSE s[i]]

\* s < t for two str (lexicographic by code point)
RECURSIVE StrLess(_, _)
StrLess(s, t) ==
    IF t = <<>> THEN FALSE
    ELSE IF s = <<>> THEN TRUE
    ELSE IF Head(s) = Head(t) THEN StrLess(Tail(s), Tail(t))
    ELSE Ord(Head(s)) < Ord(Head(t))

-----------------------------------------------------------------------------
(* core/utils.py: the helpers of compare_items                             *)

_to_str(x) == IF x.t = "none" THEN <<>> ELSE PyStr(x)

_norm_article(x) == Lower(Strip(_to_str(x)))

_norm_unit(x) == Strip(_to_str(x))

\* A decimal number m / 10^k, and NotANumber for what float() refuses.  A float
\* is modelled by the decimal it was read from: for the quantities of this
\* model the rounding of IEEE doubles changes no comparison below.
NotANumber == [ok |-> FALSE, m |-> 0, k |-> 0]
Decimal(m, k) == [ok |-> TRUE, m |-> m, k |-> k]

RECURSIVE DigitsValue(_)
DigitsValue(s) ==
    IF s = <<>> THEN 0 ELSE 10 * DigitsValue(SubSeq(s, 1, Len(s) - 1)) + DigitVal(s[Len(s)])

AllDigits(s) == \A i \in 1..Len(s) : IsDigit(s[i])

\* float(s) for a str over the model's characters: an optional sign, then
\* digits with at most one period and at least one digit.
Float(s) ==
    LET signed == s # <<>> /\ Head(s) \in {"+", "-"}
        neg == signed /\ Head(s) = "-"
        body == IF signed THEN Tail(s) ELSE s
        dots == {i \in 1..Len(body) : body[i] = "."}
        dot == IF dots = {} THEN Len(body) + 1 ELSE CHOOSE i \in dots : TRUE
        whole == SubSeq(body, 1, dot - 1)
        frac == SubSeq(body, dot + 1, Len(body))
    IN  IF Cardinality(dots) > 1 \/ ~AllDigits(whole) \/ ~AllDigits(frac)
           \/ Len(whole) + Len(frac) = 0
        THEN NotANumber
        ELSE LET m == DigitsValue(whole \o frac)
             IN  Decimal(IF neg THEN -m ELSE m, Len(frac))

_parse_qty(val) ==
    LET s == Replace(Remove(Remove(_to_str(val), "nbsp"), " "), ",", ".")
    IN  IF s \in {<<>>, <<"+">>, <<"-">>} THEN NotANumber ELSE Float(s)


\* abs(a - b) < 1e-9 for two decimals, computed exactly.  Each number is split
\* at its fourth fractional digit into hi (in units of 10^-4) and lo (in units
\* of 10^-K, K the larger number of fractional digits, at least 4), so that no
\* intermediate value leaves the machine integers.  The difference is
\* dh * 10^(K-4) + dl units of 10^-K; it is below 10^-EpsDigits iff
\* that many units, times 10^EpsDigits, are fewer than 10^K.
EpsDigits == 9

Pow10(e) == 10 ^ e

Abs(i) == IF i < 0 THEN -i ELSE i

Sign(i) == IF i < 0 THEN -1 ELSE 1

Hi(a) ==
    Sign(a.m) * (IF a.k >= 4 THEN Abs(a.m) \div Pow10(a.k - 4) ELSE Abs(a.m) * Pow10(4 - a.k))

Lo(a, K) ==
    Sign(a.m) * (IF a.k >= 4 THEN (Abs(a.m) % Pow10(a.k - 4)) * Pow10(K - a.k) ELSE 0)

AbsDiffBelowEps(a, b) ==
    LET K == IF a.k > b.k THEN (IF a.k > 4 THEN a.k ELSE 4) ELSE (IF b.k > 4 THEN b.k ELSE 4)
        dh == Hi(a) - Hi(b)
        dl == Lo(a, K) - Lo(b, K)
    IN  /\ Abs(dh) <= 1
        /\ LET d == Abs(dh * Pow10(K - 4) + dl)
           IN  IF K <= EpsDigits THEN d = 0 ELSE d < Pow10(K - EpsDigits)

\* An entry of an items collection: a key-value record (kind "dict") with the
\* three fields, each possibly absent, or something that is no record.
Dict(a, q, u) == [kind |-> "dict", article |-> a, quantity |-> q, unit |-> u]
NotDict(kind) == [kind |-> kind, article |-> Absent, quantity |-> Absent, unit |-> Absent]

\* item.get(key) and item.get(key, '')
Get(v) == IF v.t = "absent" THEN None ELSE v
GetOrEmpty(v) == IF v.t = "absent" THEN Str(<<>>) ELSE v

\* A document: items is "absent", "none" or a "list".
Doc(kind, items) == [kind |-> kind, items |-> items]

\* app_json.get('items') or []
ItemsOf(doc) == IF doc.kind = "list" THEN doc.items ELSE <<>>

\* One pass of the map-building loop: the map after the items seen so far.
\* A map is a function from normalized keys to [article, qty, unit].
MapEntry(item) ==
    [article |-> Strip(_to_str(OrEmpty(Get(item.article)))),
     qty |-> Get(item.quantity),
     unit |-> Get(item.unit)]

\* MapPut that keeps the entry a key already has (first write wins).
MapPutKeepingFirst(map, art, item) ==
    [k \in DOMAIN map \cup {art} |-> IF k \in DOMAIN map THEN map[k] ELSE MapEntry(item)]

MapPut(map, art, item) ==
    [k \in DOMAIN map \cup {art} |-> IF k = art THEN MapEntry(item) ELSE map[k]]

\* BuildMap without the `if not art: continue` of the loop.
RECURSIVE BuildMapKeepingBlank(_, _)
BuildMapKeepingBlank(items, map) ==
    IF items = <<>> THEN map
    ELSE BuildMapKeepingBlank(Tail(items),
             [k \in DOMAIN map \cup {_norm_article(GetOrEmpty(Head(items).article))} |->
                 IF k = _norm_article(GetOrEmpty(Head(items).article))
                 THEN MapEntry(Head(items)) ELSE map[k]])

RECURSIVE BuildMap(_, _)
BuildMap(items, map) ==
    IF items = <<>> THEN map
    ELSE LET item == Head(items)
             art == _norm_article(GetOrEmpty(item.article))
         IN  IF art = <<>> THEN BuildMap(Tail(items), map)
             ELSE BuildMap(Tail(items), MapPut(map, art, item))

EmptyMap == [k \in {} |-> 0]

\* item.get(...) on an entry that is no dict raises AttributeError.
Raises(items) == \E i \in 1..Len(items) : items[i].kind # "dict"

\* sorted(keys): insertion of each key of the sequence into a sorted sequence.
RECURSIVE Insert(_, _)
Insert(k, sorted) ==
    IF sorted = <<>> THEN <<k>>
    ELSE IF StrLess(k, Head(sorted)) THEN <<k>> \o sorted
    ELSE <<Head(sorted)>> \o Insert(k, Tail(sorted))

\* Sorted that leaves the keys in the order the set gave them.
SortedOmitted(keys) == keys

RECURSIVE Sorted(_)
Sorted(keys) == IF keys = <<>> THEN <<>> ELSE Insert(Head(keys), Sorted(Tail(keys)))

\* _to_str(item['qty'] or '').strip()
QtyText(qty) == Strip(_to_str(OrEmpty(qty)))

SameQty(app_qty, inv_qty) ==
    LET a == _parse_qty(app_qty)
        b == _parse_qty(inv_qty)
    IN  (a.ok /\ b.ok /\ AbsDiffBelowEps(a, b)) \/ QtyText(app_qty) = QtyText(inv_qty)

MatchEntry(app_item, inv_item) ==
    [article |-> IF app_item.article # <<>> THEN app_item.article ELSE inv_item.article,
     app_qty |-> QtyText(app_item.qty),
     app_unit |-> _norm_unit(app_item.unit),
     inv_qty |-> QtyText(inv_item.qty),
     inv_unit |-> _norm_unit(inv_item.unit),
     same_qty |-> SameQty(app_item.qty, inv_item.qty),
     same_unit |-> (_norm_unit(app_item.unit) = _norm_unit(inv_item.unit))]

OnlyInApp(item) ==
    [article |-> item.article,
     app_qty |-> QtyText(item.qty),
     app_unit |-> _norm_unit(item.unit)]

OnlyInInv(item) ==
    [article |-> item.article,
     inv_qty |-> QtyText(item.qty),
     inv_unit |-> _norm_unit(item.unit)]

\* The classification loop over the sorted keys; the three lists so far are in acc.
RECURSIVE Classify(_, _, _, _)
Classify(keys, app_map, inv_map, acc) ==
    IF keys = <<>> THEN acc
    ELSE LET key == Head(keys)
             in_app == key \in DOMAIN app_map
             in_inv == key \in DOMAIN inv_map
             next ==
                 IF in_app /\ in_inv
                 THEN [acc EXCEPT !.matches = Append(@, MatchEntry(app_map[key], inv_map[key]))]
                 ELSE IF in_app /\ ~in_inv
                 THEN [acc EXCEPT !.only_in_app = Append(@, OnlyInApp(app_map[key]))]
                 ELSE IF in_inv /\ ~in_app
                 THEN [acc EXCEPT !.only_in_inv = Append(@, OnlyInInv(inv_map[key]))]
                 ELSE acc
         IN  Classify(Tail(keys), app_map, inv_map, next)

Returned(matches, only_in_app, only_in_inv) ==
    [status |-> "returned", matches |-> matches,
     only_in_app |-> only_in_app, only_in_inv |-> only_in_inv]

Raised == [status |-> "raised", matches |-> <<>>, only_in_app |-> <<>>, only_in_inv |-> <<>>]

NoResult == [status |-> "none", matches |-> <<>>, only_in_app |-> <<>>, only_in_inv |-> <<>>]

AllKeys(app, inv) ==
    DOMAIN BuildMap(ItemsOf(app), EmptyMap) \cup DOMAIN BuildMap(ItemsOf(inv), EmptyMap)

\* The orders in which a set's elements can be iterated.
Orders(S) ==
    {f \in [1..Cardinality(S) -> S] : \A i, j \in 1..Cardinality(S) : f[i] = f[j] => i = j}

\* compare_items(app, inv); order is the order in which the set all_keys is
\* iterated by sorted().
compare_items(app, inv, order) ==
    IF Raises(ItemsOf(app)) \/ Raises(ItemsOf(inv)) THEN Raised
    ELSE Classify(Sorted(order),
                  BuildMap(ItemsOf(app), EmptyMap),
                  BuildMap(ItemsOf(inv), EmptyMap),
                  Returned(<<>>, <<>>, <<>>))

-----------------------------------------------------------------------------
(* The documents compare_items is called with                              *)

\* The most items the two documents of a call hold together.
MaxItems == 4

QtyOne == Str(<<"1">>)
QtyTwo == Str(<<"2">>)
UnitX == Str(<<"x">>)

\* Items with the keys "a" (twice, written differently), "ab" and "b", an item
\* with a blank article and an entry that is null.
ListItems ==
    {Dict(Str(<<"a">>), QtyOne, UnitX),
     Dict(Str(<<" ", "A">>), QtyTwo, Absent),
     Dict(Str(<<"a", "b">>), QtyOne, UnitX),
     Dict(Str(<<"B", " ">>), QtyOne, UnitX),
     Dict(Str(<<" ">>), QtyOne, UnitX),
     NotDict("none")}

ListInputs(app, inv) ==
    \E n \in 0..MaxItems :
        \E k \in 0..n :
            \E a \in [1..k -> ListItems], b \in [1..(n - k) -> ListItems] :
                app = Doc("list", a) /\ inv = Doc("list", b)

\* Malformed documents and entries, one at a time against a plain document.
MalformedItems ==
    {Dict(Absent, QtyOne, UnitX),
     Dict(None, QtyOne, UnitX),
     Dict(Str(<<>>), QtyOne, UnitX),
     Dict(Str(<<"nbsp", " ">>), QtyOne, UnitX),
     Dict(Str(<<"a">>), Absent, Absent),
     Dict(Str(<<"a">>), None, None),
     Dict(Str(<<"a">>), Str(<<"x">>), Str(<<" ">>)),
     NotDict("none"),
     NotDict("str")}

MalformedDocs ==
    {Doc("absent", <<>>), Doc("none", <<>>), Doc("list", <<>>)}
        \cup {Doc("list", <<i>>) : i \in MalformedItems}

PlainDocs == {Doc("list", <<>>), Doc("list", <<Dict(Str(<<"a">>), QtyOne, UnitX)>>)}

MalformedInputs(app, inv) ==
    \/ app \in MalformedDocs /\ inv \in PlainDocs
    \/ app \in PlainDocs /\ inv \in MalformedDocs

\* Quantities of one article present in both documents.
Quantities ==
    {Absent, None, Int_(0), Int_(5), Int_(10),
     Str(<<>>), Str(<<" ">>), Str(<<"+">>), Str(<<"-">>), Str(<<".">>),
     Str(<<"0">>), Str(<<"5">>), Str(<<"5", ",", "0">>), Str(<<"5", ".", "0">>),
     Str(<<" ", "5", " ">>), Str(<<"+", "5">>), Str(<<"-", "5">>), Str(<<"5", ".">>),
     Str(<<".", "5">>), Str(<<"0", ",", "5">>), Str(<<"1", "0">>), Str(<<"1", " ", "0">>),
     Str(<<"1", "nbsp", "0">>), Str(<<"1", "0", ".", "5">>), Str(<<"1", ",", "0", ",", "5">>),
     Str(<<"5", " ", "x">>), Str(<<"5", "x">>), Str(<<"-", "0">>),
     Str(<<"0", ".", "0", "0", "0", "0", "0", "0", "0", "0", "1">>),
     Str(<<"0", ".", "0", "0", "0", "0", "0", "0", "0", "0", "0", "5">>),
     Str(<<"0", ".", "0", "0", "0", "0", "0", "0", "0", "0", "2">>)}

QtyDoc(q) == Doc("list", <<Dict(Str(<<"a">>), q, UnitX)>>)

QuantityInputs(app, inv) == \E p, q \in Quantities : app = QtyDoc(p) /\ inv = QtyDoc(q)

-----------------------------------------------------------------------------
(* parsers/ocr_pool.py: OCRWorker and OCRPool                              *)
(*                                                                         *)
(* Client threads call start, shutdown, get_stats and process_images on    *)
(* one pool; the threads of its ThreadPoolExecutor run the submitted       *)
(* worker.process_image tasks.  Every read or write of the pool's and the  *)
(* workers' shared state is a step of its own, so that the threads         *)
(* interleave as they can.  An attempt of a task fails or not as readtext  *)
(* chooses; the image preprocessing and the timers of perf_logger are left *)
(* out, and so is an attempt that fails in end_timer after it has counted. *)

\* The largest pool (max_workers is 1..MaxWorkers).
MaxWorkers == 2

\* The most images one process_images call is given.
MaxBatch == 3

\* The most rosters one behaviour creates (starts of a pool that is not active).
MaxStarts == 2

\* The most batches one behaviour accepts (process_images calls that pass
\* the checks at its top).
MaxBatches == 1

\* @retry_with_backoff(max_attempts=2, ...) on OCRWorker.process_image
max_attempts == 2

\* What reader.readtext returns for the image at position img of a batch:
\* one or two text fragments, each known by its image and its place.
Fragments(img) == [k \in 1..(1 + (img % 2)) |-> <<img, k>>]

\* OCRWorker.__init__; built counts the easyocr.Reader objects constructed.
OCRWorker == [processed_count |-> 0, _reader |-> FALSE, built |-> 0]

Task(owner, img, worker) ==
    [owner |-> owner, img |-> img, worker |-> worker,
     pc |-> "queued", attempt |-> 0, loaded |-> 0]

Finished(t) == tasks[t].pc \in {"ok", "failed"}

Running(t) == tasks[t].pc \notin {"queued", "ok", "failed"}

Unfinished == {t \in DOMAIN tasks : ~Finished(t)}

\* The local variables of a call; completed, succeeded, early and waited
\* record what happened for the claims and are read by no step.
NoLocals ==
    [op |-> "none", n |-> 0, i |-> 0, list |-> 0, idx |-> 0, worker |-> 0,
     futures |-> <<>>,
     snapshot |-> {}, installed |-> FALSE, waiter |-> <<>>, yielded |-> 0,
     all_texts |-> <<>>, completed |-> <<>>, succeeded |-> {}, early |-> 0,
     waited |-> FALSE]

NoStats == [active |-> FALSE, workers_count |-> 0, total_processed |-> 0]

\* How a call ended: returned or raised, with its value (texts of
\* process_images, stats of get_stats) and what its locals recorded.
Ended(op, outcome, exc, l, stats) ==
    [op |-> op, outcome |-> outcome, exc |-> exc, texts |-> l.all_texts, stats |-> stats,
     n |-> l.n, submitted |-> Len(l.futures), completed |-> l.completed,
     succeeded |-> l.succeeded, early |-> l.early, waited |-> l.waited,
     unfinished |-> {tasks[l.futures[k]].img : k \in {k \in 1..Len(l.futures) :
                                                         ~Finished(l.futures[k])}},
     phase |-> phase]

NoCall ==
    [op |-> "none", outcome |-> "none", exc |-> "none", texts |-> <<>>, stats |-> NoStats,
     n |-> 0, submitted |-> 0, completed |-> <<>>, succeeded |-> {}, early |-> 0,
     waited |-> FALSE, unfinished |-> {}, phase |-> "new"]

\* The worker objects something refers to: the roster, the tasks, and a
\* worker a client has picked and not yet submitted.
Referenced(roster, tks, lcs, pcs) ==
    {roster[k] : k \in 1..Len(roster)}
        \cup {tks[t].worker : t \in DOMAIN tks}
        \cup {lcs[c].worker : c \in {c \in DOMAIN pcs : pcs[c] = "submit"}}

\* The heap h without the objects nothing refers to.
Collected(h, roster, tks, lcs, pcs) ==
    [w \in (DOMAIN h) \cap Referenced(roster, tks, lcs, pcs) |-> h[w]]

\* The first n ids no object of the heap has.
RECURSIVE FreshIds(_, _, _)
FreshIds(n, used, from) ==
    IF n = 0 THEN <<>>
    ELSE IF from \in used THEN FreshIds(n, used, from + 1)
    ELSE <<from>> \o FreshIds(n - 1, used, from + 1)

FreshTask == CHOOSE t \in 1..(Cardinality(DOMAIN tasks) + 1) : t \notin DOMAIN tasks

Sum(counts) ==
    LET RECURSIVE Total(_)
        Total(k) == IF k = 0 THEN 0 ELSE counts[k] + Total(k - 1)
    IN  Total(Len(counts))

\* The end of a call by client c that holds no futures.
EndCall(c, r) ==
    /\ pc' = [pc EXCEPT ![c] = "idle"]
    /\ loc' = [loc EXCEPT ![c] = NoLocals]
    /\ ret' = [ret EXCEPT ![c] = r]

\* The end of process_images: its futures are dropped; a task of its that is
\* not finished stays with the executor, owned by nobody.
EndBatch(c, r) ==
    /\ EndCall(c, r)
    /\ tasks' = [t \in {t \in DOMAIN tasks : tasks[t].owner # c \/ ~Finished(t)} |->
                    IF tasks[t].owner = c THEN [tasks[t] EXCEPT !.owner = 0] ELSE tasks[t]]
    /\ heap' = Collected(heap, _workers, tasks', loc', pc')

-----------------------------------------------------------------------------------------------------------------------------------------------------
(* OCRPool.start                                                           *)

\* A variant of AlreadyStarted: start() without its check of the executor.
AlreadyStartedUnchecked(executor) == FALSE

\* if self._executor is not None
AlreadyStarted(executor) == executor # "None"

\* with self._lock: if self._executor is not None: return;
\* self._executor = ThreadPoolExecutor(max_workers=self.max_workers)
start(c) ==
    /\ pc[c] = "idle"
    /\ _lock = 0
    /\ IF AlreadyStarted(_executor)
       THEN /\ EndCall(c, Ended("start", "returned", "none", NoLocals, NoStats))
            /\ UNCHANGED <<_executor, _lock, phase>>
       ELSE /\ roster_id < MaxStarts
            /\ _executor' = "running"
            /\ _lock' = c
            /\ phase' = "started"
            /\ pc' = [pc EXCEPT ![c] = "start_workers"]
            /\ loc' = [loc EXCEPT ![c] = [NoLocals EXCEPT !.op = "start"]]
            /\ ret' = [ret EXCEPT ![c] = NoCall]
    /\ UNCHANGED <<max_workers, _workers, heap, tasks, queue, batches, roster_id>>

\* self._workers = [OCRWorker(i) for i in range(self.max_workers)]; the lock is released
start_workers(c) ==
    /\ pc[c] = "start_workers"
    /\ LET ids == FreshIds(max_workers, DOMAIN heap, 1)
       IN  /\ _workers' = ids
           /\ heap' = [w \in DOMAIN heap \cup {ids[k] : k \in 1..Len(ids)} |->
                          IF w \in DOMAIN heap THEN heap[w] ELSE OCRWorker]
    /\ roster_id' = roster_id + 1
    /\ _lock' = 0
    /\ EndCall(c, Ended("start", "returned", "none", loc[c], NoStats))
    /\ UNCHANGED <<max_workers, _executor, tasks, queue, batches, phase>>

-----------------------------------------------------------------------------
(* OCRPool.shutdown                                                        *)

\* with self._lock: if self._executor is not None: self._executor.shutdown(wait=True) ...
\* The executor takes no new task from here on.
shutdown(c) ==
    /\ pc[c] = "idle"
    /\ _lock = 0
    /\ IF _executor = "None"
       THEN /\ EndCall(c, Ended("shutdown", "returned", "none", NoLocals, NoStats))
            /\ UNCHANGED <<_executor, _lock>>
       ELSE /\ _executor' = "shutdown"
            /\ _lock' = c
            /\ pc' = [pc EXCEPT ![c] = "shutdown_wait"]
            /\ loc' = [loc EXCEPT ![c] = [NoLocals EXCEPT !.op = "shutdown",
                                                           !.waited = (Unfinished # {})]]
            /\ ret' = [ret EXCEPT ![c] = NoCall]
    /\ UNCHANGED <<max_workers, _workers, heap, tasks, queue, batches, phase, roster_id>>

\* A variant of Drained: shutdown(wait=False).
DrainedUnwaited == TRUE

\* self._executor.shutdown(wait=True) returns once the executor's threads have
\* run every task it was given.
Drained == Unfinished = {}

\* ... shutdown(wait=True) has returned; self._executor = None
shutdown_wait(c) ==
    /\ pc[c] = "shutdown_wait"
    /\ Drained
    /\ _executor' = "None"
    /\ pc' = [pc EXCEPT ![c] = "shutdown_clear"]
    /\ UNCHANGED <<max_workers, _workers, _lock, heap, tasks, queue, loc, ret, batches,
                   phase, roster_id>>

\* total_processed = sum(...) is logged; self._workers.clear(); the lock is released
shutdown_clear(c) ==
    /\ pc[c] = "shutdown_clear"
    /\ _workers' = <<>>
    /\ _lock' = 0
    /\ phase' = "shut_down"
    /\ EndCall(c, [Ended("shutdown", "returned", "none", loc[c], NoStats)
                       EXCEPT !.phase = "shut_down"])
    /\ heap' = Collected(heap, _workers', tasks, loc', pc')
    /\ UNCHANGED <<max_workers, _executor, tasks, queue, batches, roster_id>>

-----------------------------------------------------------------------------
(* OCRPool.get_stats                                                       *)

\* if not self._workers: return {"active": False}; else the figures
Stats ==
    IF _workers = <<>> THEN NoStats
    ELSE [active |-> _executor # "None",
          workers_count |-> Len(_workers),
          total_processed |->
              Sum([k \in 1..Len(_workers) |-> heap[_workers[k]].processed_count])]

\* with self._lock: return the stats
get_stats(c) ==
    /\ pc[c] = "idle"
    /\ _lock = 0
    /\ EndCall(c, Ended("get_stats", "returned", "none", NoLocals, Stats))
    /\ UNCHANGED <<max_workers, _executor, _workers, _lock, heap, tasks, queue, batches,
                   phase, roster_id>>

-----------------------------------------------------------------------------
(* OCRPool.process_images                                                  *)

\* A variant of NotStarted: the check of the executor is left out.
NotStartedUnchecked(executor) == FALSE

\* if self._executor is None
NotStarted(executor) == executor = "None"

\* if not images: return []
\* if self._executor is None: raise RuntimeError(...)
process_images(c, n) ==
    /\ pc[c] = "idle"
    /\ LET l == [NoLocals EXCEPT !.op = "process_images", !.n = n]
       IN  IF n = 0
           THEN /\ EndCall(c, Ended("process_images", "returned", "none", l, NoStats))
                /\ UNCHANGED batches
           ELSE IF NotStarted(_executor)
           THEN /\ EndCall(c, Ended("process_images", "raised", "RuntimeError", l, NoStats))
                /\ UNCHANGED batches
           ELSE /\ batches < MaxBatches
                /\ batches' = batches + 1
                /\ pc' = [pc EXCEPT ![c] = "pick_index"]
                /\ loc' = [loc EXCEPT ![c] = l]
                /\ ret' = [ret EXCEPT ![c] = NoCall]
    /\ UNCHANGED <<max_workers, _executor, _workers, _lock, heap, tasks, queue, phase,
                   roster_id>>

\* A variant of WorkerIndex: the position after the image's own.
WorkerIndexShifted(i, count) == (i + 1) % count

\* i % len(self._workers)
WorkerIndex(i, count) == i % count

\* worker = self._workers[i % len(self._workers)], up to the index: the list
\* object is loaded, its length taken and the index computed
\* (ZeroDivisionError for an empty roster).
pick_index(c) ==
    /\ pc[c] = "pick_index"
    /\ IF Len(_workers) = 0
       THEN /\ EndBatch(c, Ended("process_images", "raised", "ZeroDivisionError",
                                 loc[c], NoStats))
       ELSE /\ pc' = [pc EXCEPT ![c] = "pick_worker"]
            /\ loc' = [loc EXCEPT ![c].list = roster_id,
                                  ![c].idx = WorkerIndex(loc[c].i, Len(_workers))]
            /\ UNCHANGED <<ret, tasks, heap>>
    /\ UNCHANGED <<max_workers, _executor, _workers, _lock, queue, batches, phase, roster_id>>

\* The list object loaded by pick_index, as it is now: shutdown clears it in
\* place, and start puts a new list in its place.
Loaded(list) == IF list = roster_id THEN _workers ELSE <<>>

\* worker = self._workers[...], the subscription (IndexError when the list
\* has been cleared since its length was taken)
pick_worker(c) ==
    /\ pc[c] = "pick_worker"
    /\ IF loc[c].idx >= Len(Loaded(loc[c].list))
       THEN /\ EndBatch(c, Ended("process_images", "raised", "IndexError",
                                 loc[c], NoStats))
       ELSE /\ pc' = [pc EXCEPT ![c] = "submit"]
            /\ loc' = [loc EXCEPT ![c].worker = Loaded(loc[c].list)[loc[c].idx + 1]]
            /\ UNCHANGED <<ret, tasks, heap>>
    /\ UNCHANGED <<max_workers, _executor, _workers, _lock, queue, batches, phase, roster_id>>

\* future = self._executor.submit(worker.process_image, image, self.use_preprocessing)
\* AttributeError when self._executor is None by now, RuntimeError when the
\* executor has been shut down.
submit(c) ==
    /\ pc[c] = "submit"
    /\ IF _executor # "running"
       THEN /\ EndBatch(c, Ended("process_images", "raised",
                                 IF _executor = "None" THEN "AttributeError"
                                 ELSE "RuntimeError",
                                 loc[c], NoStats))
            /\ UNCHANGED queue
       ELSE LET t == FreshTask
                l == loc[c]
            IN  /\ tasks' = [u \in DOMAIN tasks \cup {t} |->
                                IF u = t THEN Task(c, l.i + 1, l.worker) ELSE tasks[u]]
                /\ queue' = Append(queue, t)
                /\ loc' = [loc EXCEPT ![c].futures = Append(@, t), ![c].i = @ + 1,
                                      ![c].worker = 0]
                /\ pc' = [pc EXCEPT ![c] = IF l.i + 1 = l.n THEN "as_completed"
                                            ELSE "pick_index"]
                /\ UNCHANGED <<ret, heap>>
    /\ UNCHANGED <<max_workers, _executor, _workers, _lock, batches, phase, roster_id>>

\* as_completed(futures), entered: the futures that are finished already are
\* set aside as a set, and a waiter is installed that notes, in order, each
\* future that finishes from now on.
as_completed(c) ==
    /\ pc[c] = "as_completed"
    /\ loc' = [loc EXCEPT ![c].snapshot =
                              {loc[c].futures[k] : k \in {k \in 1..Len(loc[c].futures) :
                                                              Finished(loc[c].futures[k])}},
                          ![c].installed = TRUE,
                          ![c].early = Len(loc[c].completed)]
    /\ pc' = [pc EXCEPT ![c] = "collect"]
    /\ UNCHANGED <<max_workers, _executor, _workers, _lock, heap, tasks, queue, ret, batches,
                   phase, roster_id>>

\* A variant of Extend: the texts are put in front of those collected so far.
ExtendAtFront(all_texts, texts) == texts \o all_texts

\* all_texts.extend(texts)
Extend(all_texts, texts) == all_texts \o texts

\* A variant of Body: future.result() is called outside any try.
BodyWithoutTry(all_texts, t) ==
    IF tasks[t].pc = "ok"
    THEN [all_texts |-> Extend(all_texts, Fragments(tasks[t].img)), exc |-> "none"]
    ELSE [all_texts |-> all_texts, exc |-> "PDFParsingError"]

\* The body of the collecting loop for the future t:
\* try: texts = future.result(); all_texts.extend(texts)
\* except Exception as e: the failure is logged.
\* It gives the texts afterwards and the exception that leaves it.
Body(all_texts, t) ==
    IF tasks[t].pc = "ok"
    THEN [all_texts |-> Extend(all_texts, Fragments(tasks[t].img)), exc |-> "none"]
    ELSE [all_texts |-> all_texts, exc |-> "none"]

\* A variant of BatchOver: the loop is left after its first turn.
BatchOverAfterFirst(c) == loc[c].yielded >= 1

\* as_completed is over when every future has been yielded.
BatchOver(c) == loc[c].yielded = Len(loc[c].futures)

\* One turn of `for i, future in enumerate(as_completed(futures))`: the futures
\* set aside come first, in the order the set gives them, then those the
\* waiter has noted, in the order they finished.
collect(c) ==
    /\ pc[c] = "collect"
    /\ ~BatchOver(c)
    /\ \E t \in (IF loc[c].snapshot # {} THEN loc[c].snapshot
                 ELSE IF loc[c].waiter # <<>> THEN {Head(loc[c].waiter)} ELSE {}) :
           LET b == Body(loc[c].all_texts, t)
               l == [loc[c] EXCEPT !.snapshot = @ \ {t},
                                   !.waiter = IF loc[c].snapshot # {} THEN @ ELSE Tail(@),
                                   !.yielded = @ + 1,
                                   !.all_texts = b.all_texts]
           IN  IF b.exc = "none"
               THEN /\ loc' = [loc EXCEPT ![c] = l]
                    /\ UNCHANGED <<pc, ret, tasks, heap>>
               ELSE EndBatch(c, Ended("process_images", "raised", b.exc, l, NoStats))
    /\ UNCHANGED <<max_workers, _executor, _workers, _lock, queue, batches, phase, roster_id>>

\* return all_texts
return_texts(c) ==
    /\ pc[c] = "collect"
    /\ BatchOver(c)
    /\ EndBatch(c, Ended("process_images", "returned", "none", loc[c], NoStats))
    /\ UNCHANGED <<max_workers, _executor, _workers, _lock, queue, batches, phase, roster_id>>

-----------------------------------------------------------------------------
(* A thread of the executor running OCRWorker.process_image (with its      *)
(* retry_with_backoff wrapper) for one task                                *)

\* A task that has finished tells its future's waiters; a task nobody owns is dropped.
Finish(t, outcome) ==
    LET c == tasks[t].owner
    IN  /\ IF c = 0
           THEN /\ tasks' = [u \in DOMAIN tasks \ {t} |-> tasks[u]]
                /\ UNCHANGED loc
           ELSE /\ tasks' = [tasks EXCEPT ![t].pc = outcome]
                /\ loc' = [loc EXCEPT ![c].completed = Append(@, tasks[t].img),
                                      ![c].succeeded =
                                          IF outcome = "ok" THEN @ \cup {tasks[t].img} ELSE @,
                                      ![c].waiter =
                                          IF loc[c].installed THEN Append(@, t) ELSE @]

\* An idle thread of the executor takes the first task of the queue.
take(t) ==
    /\ queue # <<>>
    /\ t = Head(queue)
    /\ Cardinality({u \in DOMAIN tasks : Running(u)}) < max_workers
    /\ queue' = Tail(queue)
    /\ tasks' = [tasks EXCEPT ![t].pc = "get_reader"]
    /\ UNCHANGED <<max_workers, _executor, _workers, _lock, heap, pc, loc, ret, batches,
                   phase, roster_id>>

\* get_reader: if self._reader is None
get_reader(t) ==
    /\ t \in DOMAIN tasks
    /\ tasks[t].pc = "get_reader"
    /\ tasks' = [tasks EXCEPT ![t].pc =
                    IF heap[tasks[t].worker]._reader THEN "readtext" ELSE "Reader"]
    /\ UNCHANGED <<max_workers, _executor, _workers, _lock, heap, queue, pc, loc, ret,
                   batches, phase, roster_id>>

\* self._reader = easyocr.Reader(langs)
Reader(t) ==
    /\ t \in DOMAIN tasks
    /\ tasks[t].pc = "Reader"
    /\ heap' = [heap EXCEPT ![tasks[t].worker]._reader = TRUE,
                            ![tasks[t].worker].built = @ + 1]
    /\ tasks' = [tasks EXCEPT ![t].pc = "readtext"]
    /\ UNCHANGED <<max_workers, _executor, _workers, _lock, queue, pc, loc, ret, batches,
                   phase, roster_id>>

\* What the wrapper of retry_with_backoff does with a failed attempt: another
\* attempt after the delay, or the exception is raised out of the task.
AfterFailure(attempt) == IF attempt = max_attempts - 1 THEN "failed" ELSE "get_reader"

\* result = reader.readtext(...): it returns, or the attempt fails (this, or
\* the preprocessing before it, raises; process_image raises PDFParsingError).
readtext(t) ==
    /\ t \in DOMAIN tasks
    /\ tasks[t].pc = "readtext"
    /\ \E recognized \in BOOLEAN :
           IF recognized
           THEN /\ tasks' = [tasks EXCEPT ![t].pc = "count_load"]
                /\ UNCHANGED <<loc, heap>>
           ELSE IF AfterFailure(tasks[t].attempt) = "failed"
           THEN /\ Finish(t, "failed")
                /\ heap' = Collected(heap, _workers, tasks', loc', pc)
           ELSE /\ tasks' = [tasks EXCEPT ![t].pc = AfterFailure(tasks[t].attempt),
                                          ![t].attempt = @ + 1]
                /\ UNCHANGED <<loc, heap>>
    /\ UNCHANGED <<max_workers, _executor, _workers, _lock, queue, pc, ret, batches, phase,
                   roster_id>>

\* self.processed_count += 1, the read
count_load(t) ==
    /\ t \in DOMAIN tasks
    /\ tasks[t].pc = "count_load"
    /\ tasks' = [tasks EXCEPT ![t].pc = "count_store",
                              ![t].loaded = heap[tasks[t].worker].processed_count]
    /\ UNCHANGED <<max_workers, _executor, _workers, _lock, heap, queue, pc, loc, ret,
                   batches, phase, roster_id>>

\* self.processed_count += 1, the write; return result
count_store(t) ==
    /\ t \in DOMAIN tasks
    /\ tasks[t].pc = "count_store"
    /\ Finish(t, "ok")
    /\ heap' = Collected([heap EXCEPT ![tasks[t].worker].processed_count =
                                          tasks[t].loaded + 1],
                          _workers, tasks', loc', pc)
    /\ UNCHANGED <<max_workers, _executor, _workers, _lock, queue, pc, ret, batches, phase,
                   roster_id>>

-----------------------------------------------------------------------------
(* The global pool: get_global_ocr_pool and shutdown_global_ocr_pool,      *)
(* called by threads at any time.  The pools made so far are pools[1],      *)
(* pools[2], ...; _global_ocr_pool is 0 for None, or the id of one.  The    *)
(* callers give a pool size of 1 or more: OCRPool.start runs to its end.    *)

\* OCRPool(max_workers, use_preprocessing)
NewPool(config) ==
    [max_workers |-> config.max_workers, use_preprocessing |-> config.use_preprocessing,
     _executor |-> "None", workers |-> 0]

NoConfig == [max_workers |-> 0, use_preprocessing |-> FALSE]

\* What a call of a thread gave; epoch is the number of global shutdowns
\* that went before the call, pool the instance returned and started
\* whether it had an executor then.
NoGlobalCall ==
    [op |-> "none", pool |-> 0, started |-> FALSE, config |-> NoConfig, epoch |-> 0]

\* A variant of PoolLockFree: the lock is not looked at.
PoolLockIgnored(lock) == TRUE

\* with _pool_lock: the lock can be taken
PoolLockFree(lock) == lock = 0

\* The bounds: the pools constructed and the global shutdowns called
MaxPools == 2

MaxShutdowns == 2

\* get_global_ocr_pool(max_workers, use_preprocessing), entered: the lock is
\* taken.  The first call after a shutdown (or of all) is noted.
get_global_ocr_pool(t, config) ==
    /\ stage[t] = "idle"
    /\ PoolLockFree(_pool_lock)
    /\ _global_ocr_pool # 0 \/ Len(pools) < MaxPools
    /\ _pool_lock' = t
    /\ stage' = [stage EXCEPT ![t] = "check"]
    /\ args' = [args EXCEPT ![t] = config]
    /\ got' = [got EXCEPT ![t] = NoGlobalCall]
    /\ first_config' = IF first_config = NoConfig THEN config ELSE first_config
    /\ UNCHANGED <<_global_ocr_pool, pools, shutdowns>>

\* if _global_ocr_pool is None: _global_ocr_pool = OCRPool(max_workers, use_preprocessing)
construct_pool(t) ==
    /\ stage[t] = "check"
    /\ IF _global_ocr_pool = 0
       THEN /\ pools' = Append(pools, NewPool(args[t]))
            /\ _global_ocr_pool' = Len(pools) + 1
            /\ stage' = [stage EXCEPT ![t] = "start"]
       ELSE /\ stage' = [stage EXCEPT ![t] = "return"]
            /\ UNCHANGED <<pools, _global_ocr_pool>>
    /\ UNCHANGED <<_pool_lock, args, got, first_config, shutdowns>>

\* _global_ocr_pool.start(): the executor and max_workers workers
start_pool(t) ==
    /\ stage[t] = "start"
    /\ pools' = [pools EXCEPT ![_global_ocr_pool]._executor = "running",
                              ![_global_ocr_pool].workers =
                                  pools[_global_ocr_pool].max_workers]
    /\ stage' = [stage EXCEPT ![t] = "return"]
    /\ UNCHANGED <<_global_ocr_pool, _pool_lock, args, got, first_config, shutdowns>>

\* return _global_ocr_pool, and the lock is released
return_pool(t) ==
    /\ stage[t] = "return"
    /\ got' = [got EXCEPT ![t] =
                  [op |-> "get_global_ocr_pool", pool |-> _global_ocr_pool,
                   started |-> _global_ocr_pool # 0
                               /\ pools[_global_ocr_pool]._executor = "running",
                   config |-> args[t], epoch |-> shutdowns]]
    /\ stage' = [stage EXCEPT ![t] = "idle"]
    /\ args' = [args EXCEPT ![t] = NoConfig]
    /\ _pool_lock' = 0
    /\ UNCHANGED <<_global_ocr_pool, pools, first_config, shutdowns>>

\* shutdown_global_ocr_pool(), entered: the lock is taken
shutdown_global_ocr_pool(t) ==
    /\ stage[t] = "idle"
    /\ PoolLockFree(_pool_lock)
    /\ shutdowns < MaxShutdowns
    /\ _pool_lock' = t
    /\ stage' = [stage EXCEPT ![t] = "shutdown"]
    /\ got' = [got EXCEPT ![t] = NoGlobalCall]
    /\ UNCHANGED <<_global_ocr_pool, pools, args, first_config, shutdowns>>

\* if _global_ocr_pool is not None: _global_ocr_pool.shutdown();
\* _global_ocr_pool = None; and the lock is released
shutdown_pool(t) ==
    /\ stage[t] = "shutdown"
    /\ IF _global_ocr_pool # 0
       THEN /\ pools' = [pools EXCEPT ![_global_ocr_pool]._executor = "None",
                                      ![_global_ocr_pool].workers = 0]
            /\ _global_ocr_pool' = 0
       ELSE UNCHANGED <<pools, _global_ocr_pool>>
    /\ shutdowns' = shutdowns + 1
    /\ first_config' = NoConfig
    /\ got' = [got EXCEPT ![t] = [NoGlobalCall EXCEPT !.op = "shutdown_global_ocr_pool",
                                                      !.epoch = shutdowns]]
    /\ stage' = [stage EXCEPT ![t] = "idle"]
    /\ _pool_lock' = 0
    /\ UNCHANGED args

\* The arguments the callers give
Configs == [max_workers : 1..MaxWorkers, use_preprocessing : BOOLEAN]

-----------------------------------------------------------------------------
(* parsers/pdf_parser.py: PDFParser                                        *)
(*                                                                         *)
(* A file is described by what its environment gives: whether the path     *)
(* exists, whether pdfplumber opens it, what extract_text gives for each   *)
(* page, whether convert_from_path raises, what the recognition gives for  *)
(* each page image, and whether the OCR pool raises.  A text is a sequence *)
(* of characters; "nl" is the newline.                                     *)

\* `text_plumber and len(text_plumber) > 10`
TextThreshold == 10

\* sep.join(texts)
RECURSIVE Join(_, _)
Join(texts, sep) ==
    IF texts = <<>> THEN <<>>
    ELSE IF Len(texts) = 1 THEN texts[1]
    ELSE texts[1] \o <<sep>> \o Join(Tail(texts), sep)

\* page.extract_text(...) gave the text s / gave None / raised
PageText(s) == [kind |-> "text", s |-> s]
PageNone == [kind |-> "none", s |-> <<>>]
PageRaises == [kind |-> "raises", s |-> <<>>]

\* The loop over pdf.pages: text = page.extract_text(...) or ''; a text that
\* is not empty is kept, a page that raises is passed over.
RECURSIVE ExtractedPages(_)
ExtractedPages(pages) ==
    IF pages = <<>> THEN <<>>
    ELSE IF Head(pages).kind = "text" /\ Head(pages).s # <<>>
         THEN <<Head(pages).s>> \o ExtractedPages(Tail(pages))
         ELSE ExtractedPages(Tail(pages))

\* PDFParser._extract_text_with_pdfplumber
_extract_text_with_pdfplumber(file) ==
    IF ~file.opens THEN <<>>
    ELSE Strip(Join(ExtractedPages(file.pages), "nl"))

\* convert_from_path(file_path, ...): one image for every page of the file
Images(file) == [k \in 1..Len(file.pages) |-> k]

\* The fragments recognized in the images, those of an image that fails left
\* out: what the OCR pool returns for the batch (in the order of the pages,
\* which is one of the orders the pool can give), and what the loop of the
\* legacy method collects.
RECURSIVE Recognized(_)
Recognized(ocr) ==
    IF ocr = <<>> THEN <<>>
    ELSE IF Head(ocr).ok THEN Head(ocr).texts \o Recognized(Tail(ocr))
         ELSE Recognized(Tail(ocr))

\* How parse_pdf ended, with what it did on the way: rasterized tells
\* whether convert_from_path was called, batches lists the sizes of the
\* batches handed to the OCR pool, legacy tells whether a reader of its own
\* was used.
Parsed(outcome, text, rasterized, sizes, legacy) ==
    [outcome |-> outcome, text |-> text, rasterized |-> rasterized, batches |-> sizes,
     legacy |-> legacy]

\* PDFParser._extract_text_with_ocr_pool; every exception leaves it, and
\* parse_pdf, as a PDFParsingError.
_extract_text_with_ocr_pool(file) ==
    IF file.raster = "raises" THEN Parsed("raised", <<>>, TRUE, <<>>, FALSE)
    ELSE IF Images(file) = <<>> THEN Parsed("raised", <<>>, TRUE, <<>>, FALSE)
    ELSE IF file.pool_raises THEN Parsed("raised", <<>>, TRUE, <<Len(Images(file))>>, FALSE)
    ELSE Parsed("returned", Join(Recognized(file.ocr), "nl"), TRUE,
                <<Len(Images(file))>>, FALSE)

\* PDFParser._extract_text_with_ocr_legacy
_extract_text_with_ocr_legacy(file) ==
    IF file.raster = "raises" THEN Parsed("raised", <<>>, TRUE, <<>>, TRUE)
    ELSE Parsed("returned", Join(Recognized(file.ocr), "nl"), TRUE, <<>>, TRUE)

\* A variant of IsTextPdf: the text is compared with the threshold by >=.
IsTextPdfFromThreshold(text_plumber) ==
    text_plumber # <<>> /\ Len(text_plumber) >= TextThreshold

\* if text_plumber and len(text_plumber) > 10
IsTextPdf(text_plumber) == text_plumber # <<>> /\ Len(text_plumber) > TextThreshold

\* PDFParser.parse_pdf(file_path, use_ocr_pool).  file_operation_retry repeats
\* the call on OSError only, and every exception leaves parse_pdf as a
\* PDFParsingError, which is none: there is one attempt.
parse_pdf(file, use_pool) ==
    IF ~file.exists THEN Parsed("raised", <<>>, FALSE, <<>>, FALSE)
    ELSE LET text_plumber == _extract_text_with_pdfplumber(file)
         IN  IF IsTextPdf(text_plumber)
             THEN Parsed("returned", text_plumber, FALSE, <<>>, FALSE)
             ELSE IF use_pool THEN _extract_text_with_ocr_pool(file)
             ELSE _extract_text_with_ocr_legacy(file)

\* One turn of the loop of parse_multiple_pdfs:
\* try: text = cls.parse_pdf(file_path, use_ocr_pool); results.append(text)
\* except Exception: results.append("")
parse_next_pdf ==
    /\ ~pdf_returned
    /\ Len(results) < Len(file_paths)
    /\ LET p == parse_pdf(file_paths[Len(results) + 1], use_ocr_pool)
       IN  /\ results' = Append(results, IF p.outcome = "returned" THEN p.text ELSE <<>>)
           /\ parsed' = Append(parsed, p)
    /\ UNCHANGED <<file_paths, use_ocr_pool, pdf_returned>>

\* if not file_paths: return [] ... return results
return_results ==
    /\ ~pdf_returned
    /\ Len(results) = Len(file_paths)
    /\ pdf_returned' = TRUE
    /\ UNCHANGED <<file_paths, use_ocr_pool, results, parsed>>

(* The files and the calls the model is run on *)

\* The most pages a file has.
MaxPages == 2

\* The most files parse_multiple_pdfs is given.
MaxFiles == 3

\* n characters that are no whitespace
X(n) == [k \in 1..n |-> "x"]

PageOptions ==
    {PageNone, PageRaises, PageText(X(5)), PageText(<<" ">> \o X(10) \o <<" ">>),
     PageText(X(11)), PageText(<<" ", " ">>)}

\* What readtext gives for one page image: it fails, or these fragments
OcrOptions ==
    {[ok |-> FALSE, texts |-> <<>>], [ok |-> TRUE, texts |-> <<>>],
     [ok |-> TRUE, texts |-> <<X(2), <<" ">>>>]}

File(exists, opens, pages, raster, ocr, pool_raises) ==
    [exists |-> exists, opens |-> opens, pages |-> pages, raster |-> raster, ocr |-> ocr,
     pool_raises |-> pool_raises]

\* One file of any kind, parsed with or without the pool
OneFileInputs(paths, use_pool) ==
    /\ use_pool \in BOOLEAN
    /\ \E n \in 0..MaxPages :
           \E pages \in [1..n -> PageOptions], ocr \in [1..n -> OcrOptions],
              exists \in BOOLEAN, opens \in BOOLEAN, raster \in {"ok", "raises"},
              pool_raises \in BOOLEAN :
               paths = <<File(exists, opens, pages, raster, ocr, pool_raises)>>

\* A text file, a scanned file, a scanned file nothing is recognized in, a file
\* that cannot be rasterized and a path that does not exist
FileKinds ==
    {File(TRUE, TRUE, <<PageText(X(11))>>, "ok", <<[ok |-> TRUE, texts |-> <<>>]>>, FALSE),
     File(TRUE, TRUE, <<PageNone>>, "ok", <<[ok |-> TRUE, texts |-> <<X(2)>>]>>, FALSE),
     File(TRUE, TRUE, <<PageNone>>, "ok", <<[ok |-> FALSE, texts |-> <<>>]>>, FALSE),
     File(TRUE, FALSE, <<PageNone>>, "raises", <<[ok |-> FALSE, texts |-> <<>>]>>, FALSE),
     File(FALSE, FALSE, <<>>, "raises", <<>>, FALSE)}

\* Up to MaxFiles files, parsed with the pool
FileListInputs(paths, use_pool) ==
    /\ use_pool = TRUE
    /\ \E n \in 0..MaxFiles : paths \in [1..n -> FileKinds]

-----------------------------------------------------------------------------
(* ImagePreprocessor.  An image is its mode, its size and the stages that   *)
(* have produced its pixels from those of the image first given; two        *)
(* images are identical when the three are equal.  The multipliers are      *)
(* written in tenths (10 is 1.0).  The quotients and products of            *)
(* resize_if_needed are Python floats, IEEE 754 doubles rounded to nearest, *)
(* ties to even, and are computed here digit for digit from the integers.   *)

Image(mode, size) == [mode |-> mode, size |-> size, stages |-> <<>>]

\* What a call gave: the image it returned, or the exception it raised.
GaveImage(img) == [outcome |-> "returned", exc |-> "none", image |-> img]

GaveError(exc) == [outcome |-> "raised", exc |-> exc, image |-> Image("none", <<0, 0>>)]

NotCalled == [outcome |-> "none", exc |-> "none", image |-> Image("none", <<0, 0>>)]

\* image.convert('RGB')
ConvertRGB(img) == [img EXCEPT !.mode = "RGB", !.stages = Append(@, <<"convert", "RGB">>)]

\* ImageEnhance.<kind>(image).enhance(factor)
Enhance(img, kind, factor) == [img EXCEPT !.stages = Append(@, <<kind, factor>>)]

\* A variant of Stage: the enhancer is applied whatever the multiplier.
StageAlways(img, kind, factor) == Enhance(img, kind, factor)

\* if factor != 1.0: image = ImageEnhance.<kind>(image).enhance(factor)
Stage(img, kind, factor) == IF factor # 10 THEN Enhance(img, kind, factor) ELSE img

\* enhance_image(image, contrast, brightness, sharpness)
enhance_image(img, c, b, s) ==
    LET rgb == IF img.mode # "RGB" THEN ConvertRGB(img) ELSE img
    IN  GaveImage(Stage(Stage(Stage(rgb, "Contrast", c), "Brightness", b), "Sharpness", s))

RECURSIVE ExponentOf(_, _)
\* The exponent of the double nearest to a / b, for a, b > 0: the j with
\* 2^j <= a / b < 2^(j + 1).
ExponentOf(a, b) ==
    IF a < b THEN ExponentOf(2 * a, b) - 1
    ELSE IF a >= 2 * b THEN ExponentOf(a, 2 * b) + 1
    ELSE 0

RECURSIVE PowerOfTwo(_)
PowerOfTwo(k) == IF k = 0 THEN 1 ELSE 2 * PowerOfTwo(k - 1)

RECURSIVE PowerOfTwoMod(_, _)
\* 2^s modulo n
PowerOfTwoMod(s, n) == IF s = 0 THEN 1 % n ELSE (2 * PowerOfTwoMod(s - 1, n)) % n

\* m / d as a double: the quotient is rounded to 53 significant bits, which
\* is the nearest multiple of 2^(-s), s = 52 - ExponentOf(m, d).  The value
\* is the distance of the double from m / d, in units of 2^(-s) / d (below
\* zero when the double is the smaller).
QuotientError(m, d) ==
    LET s == 52 - ExponentOf(m, d)
        r == ((m % d) * PowerOfTwoMod(s, d)) % d
        odd == ((m % (2 * d)) * PowerOfTwoMod(s, 2 * d)) % (2 * d) >= d
    IN  IF 2 * r < d \/ (2 * r = d /\ ~odd) THEN 0 - r ELSE d - r

\* int(x * (m / d)) with x >= 0, m > 0, d > 0.  When x * m / d is no integer
\* the doubles are far nearer to it than the next integer is, and the
\* integer part is that of the exact value.  When it is an integer k the
\* product is the double nearest to k + x * QuotientError / d * 2^(-s): k
\* itself unless that lies more than half a step below k, and then a double
\* below k whose integer part is k - 1.
TruncatedProduct(x, m, d) ==
    LET k == (x * m) \div d
        e == QuotientError(m, d)
        c == ExponentOf(k, 1)
        steps == IF k = PowerOfTwo(c) THEN 4 ELSE 2
    IN  IF (x * m) % d # 0 \/ x = 0 \/ e >= 0 THEN k
        ELSE IF steps * x * (0 - e) > d * PowerOfTwo(c - ExponentOf(m, d)) THEN k - 1
        ELSE k

\* image.resize((new_width, new_height), LANCZOS): Pillow refuses a size
\* with a side below 1 ("height and width must be > 0").
Resize(img, size) ==
    IF size[1] < 1 \/ size[2] < 1 THEN GaveError("ValueError")
    ELSE GaveImage([img EXCEPT !.size = size, !.stages = Append(@, <<"resize", size>>)])

\* resize_if_needed(image, max_width, max_height)
\* scale = min(max_width / width, max_height / height): the quotient that is
\* the smaller; a division by 0 raises ZeroDivisionError.
resize_if_needed(img, maxw, maxh) ==
    LET width == img.size[1]
        height == img.size[2]
    IN  IF width <= maxw /\ height <= maxh THEN GaveImage(img)
        ELSE IF width = 0 \/ height = 0 THEN GaveError("ZeroDivisionError")
        ELSE IF maxw * height <= maxh * width
        THEN Resize(img, <<TruncatedProduct(width, maxw, width),
                           TruncatedProduct(height, maxw, width)>>)
        ELSE Resize(img, <<TruncatedProduct(width, maxh, height),
                           TruncatedProduct(height, maxh, height)>>)

\* A call of resize_if_needed on the image
call_resize_if_needed ==
    /\ resized = NotCalled
    /\ resized' = resize_if_needed(image, max_width, max_height)
    /\ UNCHANGED <<image, max_width, max_height, factors, enhanced>>

\* A call of enhance_image on the image
call_enhance_image ==
    /\ enhanced = NotCalled
    /\ enhanced' = enhance_image(image, factors[1], factors[2], factors[3])
    /\ UNCHANGED <<image, max_width, max_height, factors, resized>>

\* The inputs: images of every size up to MaxSide, zero sizes included, in
\* three modes; maxima at which doubles round (15 / 22 * 22 < 15) and small
\* ones; multipliers 1.0 and 1.2.
MaxSide == 23

Limits == {2, 15}

Modes == {"RGB", "L", "RGBA"}

Multipliers == {10, 12}

ImageInputs ==
    /\ image \in {Image(mode, <<w, h>>) : mode \in Modes, w \in 0..MaxSide, h \in 0..MaxSide}
    /\ max_width \in Limits
    /\ max_height \in Limits
    /\ factors \in Multipliers \X Multipliers \X Multipliers

-----------------------------------------------------------------------------
(* config.py: OCR_DENOISE, and ImagePreprocessor.preprocess_for_ocr with   *)
(* the values of config.  A setting comes from secrets.json (any JSON       *)
(* value) or from the environment (a str).                                  *)

Bool_(b) == [t |-> "bool", s |-> <<>>, n |-> IF b THEN 1 ELSE 0]

\* _get(name, default): the value of secrets.json unless it is missing, null
\* or "", else the environment variable, else the default
_get(secret, env, default) ==
    IF secret.t # "absent" /\ secret # None /\ secret # Str(<<>>) THEN secret
    ELSE IF env.t # "absent" THEN env
    ELSE default

\* str(x) of a value of a setting
SettingStr(x) ==
    IF x.t = "bool" THEN (IF x.n = 1 THEN <<"T", "r", "u", "e">> ELSE <<"F", "a", "l", "s", "e">>)
    ELSE PyStr(x)

\* OCR_DENOISE: bool = str(_get("OCR_DENOISE", "0")).strip() in ("0", "false", "False")
OcrDenoise(secret, env) ==
    Strip(SettingStr(_get(secret, env, Str(<<"0">>))))
        \in {<<"0">>, <<"f", "a", "l", "s", "e">>, <<"F", "a", "l", "s", "e">>}

\* apply_filters(image, denoise):
\* if denoise: image = image.filter(ImageFilter.MedianFilter(size=3))
apply_filters(img, denoise) ==
    IF denoise THEN [img EXCEPT !.stages = Append(@, <<"MedianFilter", 3>>)] ELSE img

\* preprocess_for_ocr(image) with config's OCR_MAX_WIDTH, OCR_MAX_HEIGHT,
\* OCR_CONTRAST, OCR_BRIGHTNESS, OCR_SHARPNESS and OCR_DENOISE
preprocess_for_ocr(img, maxw, maxh, f, denoise) ==
    LET sized == resize_if_needed(img, maxw, maxh)
    IN  IF sized.outcome = "raised" THEN sized
        ELSE GaveImage(apply_filters(enhance_image(sized.image, f[1], f[2], f[3]).image,
                                     denoise))

\* import config: the module's assignments are executed
import_config ==
    /\ OCR_DENOISE = Absent
    /\ OCR_DENOISE' = Bool_(OcrDenoise(secrets, environ))
    /\ UNCHANGED <<secrets, environ, preprocessed, image_vars>>

\* A call of preprocess_for_ocr on the image
call_preprocess_for_ocr ==
    /\ OCR_DENOISE # Absent
    /\ preprocessed = NotCalled
    /\ preprocessed' = preprocess_for_ocr(image, max_width, max_height, factors,
                                          OCR_DENOISE = Bool_(TRUE))
    /\ UNCHANGED <<secrets, environ, OCR_DENOISE, image_vars>>

\* The values of OCR_DENOISE in secrets.json and in the environment
SecretValues ==
    {Absent, None, Str(<<>>), Str(<<"1">>), Str(<<"0">>), Int_(1), Int_(0),
     Bool_(TRUE), Bool_(FALSE)}

EnvValues ==
    {Absent, Str(<<"1">>), Str(<<"0">>), Str(<<"t", "r", "u", "e">>),
     Str(<<"f", "a", "l", "s", "e">>), Str(<<"T", "r", "u", "e">>),
     Str(<<"F", "a", "l", "s", "e">>), Str(<<" ", "1", " ">>)}

\* The images preprocessed: sides of 0, 3 and 20
PreprocessInputs ==
    /\ image \in {Image(mode, <<w, h>>) : mode \in {"RGB", "L"}, w \in {0, 3, 20}, h \in {0, 3, 20}}
    /\ max_width \in Limits
    /\ max_height \in Limits
    /\ factors \in Multipliers \X Multipliers \X Multipliers

-----------------------------------------------------------------------------
(* services/artifacts.py.  A path is a str, a sequence of characters; the   *)
(* process's working directory is /x and does not change; there are no      *)
(* symbolic links.                                                          *)

RECURSIVE SplitPath(_, _, _)
\* The components of the path s between its separators, empty ones dropped
SplitPath(s, component, done) ==
    LET closed == IF component = <<>> THEN done ELSE Append(done, component)
    IN  IF s = <<>> THEN closed
        ELSE IF Head(s) = "/" THEN SplitPath(Tail(s), <<>>, closed)
        ELSE SplitPath(Tail(s), Append(component, Head(s)), done)

\* Path(path): rooted or not, and its components without the "." ones
Path(s) ==
    [root |-> s # <<>> /\ Head(s) = "/",
     parts |-> SelectSeq(SplitPath(s, <<>>, <<>>), LAMBDA c : c # <<".">>)]

\* str(p)
PathStr(p) ==
    IF p.root THEN <<"/">> \o Join(p.parts, "/")
    ELSE IF p.parts = <<>> THEN <<".">>
    ELSE Join(p.parts, "/")

\* Path.cwd().resolve()
Cwd == [root |-> TRUE, parts |-> <<<<"x">>>>]

RECURSIVE Collapse(_, _)
\* The components with every ".." taken out together with the one before it
Collapse(parts, done) ==
    IF parts = <<>> THEN done
    ELSE IF Head(parts) = <<".", ".">>
    THEN Collapse(Tail(parts), IF done = <<>> THEN <<>> ELSE SubSeq(done, 1, Len(done) - 1))
    ELSE Collapse(Tail(parts), Append(done, Head(parts)))

\* p.resolve()
Resolve(p) ==
    [root |-> TRUE,
     parts |-> Collapse(IF p.root THEN p.parts ELSE Cwd.parts \o p.parts, <<>>)]

\* p is inside the directory dir, or is dir (relative_to raises when not)
IsRelativeTo(p, dir) ==
    /\ Len(p.parts) >= Len(dir.parts)
    /\ SubSeq(p.parts, 1, Len(dir.parts)) = dir.parts

\* p.relative_to(dir)
RelativeTo(p, dir) ==
    [root |-> FALSE, parts |-> SubSeq(p.parts, Len(dir.parts) + 1, Len(p.parts))]

\* A variant of _to_rel: the path as it was given.
_to_rel_unresolved(path) == path

\* _to_rel(path): relative to the working directory when inside it, else as
\* given
_to_rel(path) ==
    LET p == Path(path)
    IN  IF IsRelativeTo(Resolve(p), Cwd) THEN PathStr(RelativeTo(Resolve(p), Cwd))
        ELSE PathStr(p)

RECURSIVE SortedSet(_)
\* sorted(S) for a set of str
SortedSet(S) ==
    IF S = {} THEN <<>>
    ELSE LET least == CHOOSE s \in S : \A t \in S \ {s} : StrLess(s, t)
         IN  <<least>> \o SortedSet(S \ {least})

\* list_all()
list_all == SortedSet(_ARTIFACTS)

\* The file a registered str names, and what is there now
FileOf(rel) == Resolve(Path(rel)).parts

Kind(files, rel) == IF FileOf(rel) \in DOMAIN files THEN files[FileOf(rel)] ELSE "missing"

NoReport ==
    [called |-> FALSE, attempted |-> <<>>, deleted |-> <<>>, not_found |-> <<>>,
     errors |-> <<>>]

RECURSIVE CleanupLoop(_, _, _, _)
\* for rel in list_all(): p.exists() is true of a file and of a directory;
\* p.unlink() removes a file and raises for a directory.
CleanupLoop(todo, files, rep, delete_missing_ok) ==
    IF todo = <<>> THEN [fs |-> files, report |-> rep]
    ELSE LET rel == Head(todo)
             kind == Kind(files, rel)
             seen == [rep EXCEPT !.attempted = Append(@, rel)]
         IN  IF kind = "file"
             THEN CleanupLoop(Tail(todo), [files EXCEPT ![FileOf(rel)] = "missing"],
                              [seen EXCEPT !.deleted = Append(@, rel)], delete_missing_ok)
             ELSE IF kind = "dir"
             THEN CleanupLoop(Tail(todo), files,
                              [seen EXCEPT !.errors = Append(@, <<rel, "IsADirectoryError">>)],
                              delete_missing_ok)
             ELSE IF delete_missing_ok
             THEN CleanupLoop(Tail(todo), files,
                              [seen EXCEPT !.not_found = Append(@, rel)], delete_missing_ok)
             ELSE CleanupLoop(Tail(todo), files,
                              [seen EXCEPT !.errors = Append(@, <<rel, "missing">>)],
                              delete_missing_ok)

\* The calls that may still be made
MaxCalls == 4

Called(op, path) ==
    /\ Len(calls) < MaxCalls
    /\ calls' = Append(calls, <<op, path>>)

\* register(path)
register(path) ==
    /\ Called("register", path)
    /\ _ARTIFACTS' = _ARTIFACTS \cup {_to_rel(path)}
    /\ UNCHANGED <<fs, report>>

\* discard(path)
discard(path) ==
    /\ Called("discard", path)
    /\ _ARTIFACTS' = _ARTIFACTS \ {_to_rel(path)}
    /\ UNCHANGED <<fs, report>>

\* clear()
clear ==
    /\ Called("clear", <<>>)
    /\ _ARTIFACTS' = {}
    /\ UNCHANGED <<fs, report>>

\* cleanup(delete_missing_ok)
cleanup(delete_missing_ok) ==
    /\ Called("cleanup", <<>>)
    /\ LET done == CleanupLoop(list_all, fs, [NoReport EXCEPT !.called = TRUE],
                               delete_missing_ok)
       IN  /\ fs' = done.fs
           /\ report' = done.report
    /\ _ARTIFACTS' = {}

\* The paths given to register and discard: three spellings of /x/a, one of
\* /x/b, two of /b, which is outside the working directory.
PathInputs ==
    {<<"a">>, <<".", "/", "a">>, <<"/", "x", "/", "a">>, <<"b">>, <<"/", "b">>,
     <<".", ".", "/", "b">>}

\* The files: /x/a is a file, a directory or missing to begin with, /x/b a
\* file or missing, /b a file.
Files == {<<<<"x">>, <<"a">>>>, <<<<"x">>, <<"b">>>>, <<<<"b">>>>}

FileSystems ==
    {f \in [Files -> {"file", "dir", "missing"}] :
        /\ f[<<<<"x">>, <<"b">>>>] # "dir"
        /\ f[<<<<"b">>>>] = "file"}

-----------------------------------------------------------------------------
(* ProcessingPipeline.process_files_parallel: one job per file, each on a   *)
(* thread of its own (max_workers = min(4, len(file_paths))), all using the *)
(* timer "single_file_processing" of the module's one PerformanceLogger.    *)
(* A file is what parsing it gives; the timers inside parse_pdf are named   *)
(* after the file and are left out.                                         *)

\* TextCleaner.clean_text for a text of one line without tabs: the line is
\* stripped, an empty line dropped, the word nan taken out.
clean_text(text) ==
    IF Lower(Strip(text)) = <<"n", "a", "n">> THEN <<>> ELSE Strip(text)

\* What the parser does with a file: the text it returns, an exception, or
\* nothing at all for a suffix that is neither .pdf nor .xls/.xlsx.
Gives(text) == [kind |-> "text", text |-> text]

Fails == [kind |-> "raises", text |-> <<>>]

Unsupported == [kind |-> "unsupported", text |-> <<>>]

\* A job: where its thread is in process_single_file, the cleaned content
\* it holds, and how the call ended.
Job(pcj, content, outcome) == [pc |-> pcj, content |-> content, outcome |-> outcome]

Submitted == Job("start_timer", <<>>, "none")

\* return value / return None / an exception out of process_single_file
Done(job, outcome) == [job EXCEPT !.pc = "done", !.outcome = outcome]

\* perf_logger.start_timer("single_file_processing")
start_timer(j) ==
    /\ jobs[j].pc = "start_timer"
    /\ _start_times' = TRUE
    /\ jobs' = [jobs EXCEPT ![j].pc = "parse"]
    /\ UNCHANGED <<pipeline_files, pipeline_results, collected, pipeline_returned, file_contents>>

\* content = parse_pdf(file_path) / parse_excel(file_path); if content:
\* cleaned_content = clean_text(content).  An exception of the parser is
\* caught and logged, and empty content falls through to the last lines.
parse_file(j) ==
    /\ jobs[j].pc = "parse"
    /\ LET file == pipeline_files[j]
       IN  jobs' = [jobs EXCEPT ![j] =
                       IF file.kind = "unsupported" THEN Done(@, "None")
                       ELSE IF file.kind = "raises" \/ file.text = <<>>
                       THEN [@ EXCEPT !.pc = "failed_end_timer"]
                       ELSE [@ EXCEPT !.pc = "end_timer", !.content = clean_text(file.text)]]
    /\ UNCHANGED <<pipeline_files, _start_times, pipeline_results, collected,
                   pipeline_returned, file_contents>>

\* end_timer("single_file_processing", ...) after the content was cleaned:
\* if operation not in self._start_times: return 0.0
end_timer(j) ==
    /\ jobs[j].pc = "end_timer"
    /\ jobs' = [jobs EXCEPT ![j] = IF _start_times THEN [@ EXCEPT !.pc = "end_timer_del"]
                                   ELSE Done(@, "returned")]
    /\ UNCHANGED <<pipeline_files, _start_times, pipeline_results, collected,
                   pipeline_returned, file_contents>>

\* elapsed = ... - self._start_times[operation]; del self._start_times[operation]
\* KeyError when another thread has deleted the key since the test; it is
\* caught by `except Exception` of process_single_file.
end_timer_del(j) ==
    /\ jobs[j].pc = "end_timer_del"
    /\ jobs' = [jobs EXCEPT ![j] = IF _start_times THEN Done(@, "returned")
                                   ELSE [@ EXCEPT !.pc = "failed_end_timer"]]
    /\ _start_times' = FALSE
    /\ UNCHANGED <<pipeline_files, pipeline_results, collected, pipeline_returned, file_contents>>

\* end_timer("single_file_processing", success=False); return None
failed_end_timer(j) ==
    /\ jobs[j].pc = "failed_end_timer"
    /\ jobs' = [jobs EXCEPT ![j] = IF _start_times THEN [@ EXCEPT !.pc = "failed_end_timer_del"]
                                   ELSE Done(@, "None")]
    /\ UNCHANGED <<pipeline_files, _start_times, pipeline_results, collected,
                   pipeline_returned, file_contents>>

\* The same two lines of end_timer; here the KeyError leaves
\* process_single_file.
failed_end_timer_del(j) ==
    /\ jobs[j].pc = "failed_end_timer_del"
    /\ jobs' = [jobs EXCEPT ![j] = IF _start_times THEN Done(@, "None") ELSE Done(@, "raised")]
    /\ _start_times' = FALSE
    /\ UNCHANGED <<pipeline_files, pipeline_results, collected, pipeline_returned, file_contents>>

\* for future in as_completed(future_to_path): result = future.result();
\* if result: results.append(result); an exception is logged.
collect_result(j) ==
    /\ jobs[j].pc = "done"
    /\ j \notin collected
    /\ collected' = collected \cup {j}
    /\ pipeline_results' =
           IF jobs[j].outcome = "returned" /\ jobs[j].content # <<>>
           THEN Append(pipeline_results, <<j, jobs[j].content>>)
           ELSE pipeline_results
    /\ UNCHANGED <<pipeline_files, jobs, _start_times, pipeline_returned, file_contents>>

\* return results
return_pipeline ==
    /\ collected = DOMAIN jobs
    /\ ~pipeline_returned
    /\ pipeline_returned' = TRUE
    /\ UNCHANGED <<pipeline_files, jobs, _start_times, pipeline_results, collected,
                   file_contents>>

\* The texts run_processing hands to the LLM, each with the file name it is
\* given and, for the record, the file it was extracted from
NotBuilt == [built |-> FALSE, pairs |-> <<>>]

\* run_processing, only invoices selected, after
\* invoice_data_list = pipeline.process_files_parallel(invoice_paths):
\* file_contents = [(invoice_filenames_selected[i], content)
\*                  for i, content in enumerate(invoice_data_list) if content]
\* A file is named by its place in invoice_filenames_selected.
run_processing ==
    /\ pipeline_returned
    /\ ~file_contents.built
    /\ file_contents' =
           [built |-> TRUE,
            pairs |-> [i \in 1..Len(pipeline_results) |->
                          [name |-> i, source |-> pipeline_results[i][1],
                           content |-> pipeline_results[i][2]]]]
    /\ UNCHANGED <<pipeline_files, jobs, _start_times, pipeline_results, collected,
                   pipeline_returned>>

\* The files: a text, a text that cleaning empties, an empty text, a parser
\* that raises, and a file of another type.
PipelineFileKinds ==
    {Gives(X(11)), Gives(<<"n", "a", "n">>), Gives(<<>>), Fails, Unsupported}

\* The bound: the files of a call, 1 to MaxParallel
MaxParallel == 3

PipelineInputs ==
    pipeline_files \in UNION {[1..n -> PipelineFileKinds] : n \in 1..MaxParallel}

-----------------------------------------------------------------------------
(* core/retry.py: retry_with_backoff.  One call of the wrapper around a     *)
(* function that returns or raises as it chooses on each attempt.  Times    *)
(* are whole milliseconds; random.uniform gives the ends of its range, the  *)
(* middle and a millisecond either side of it.                              *)

\* The classes an exception of each kind is an instance of.
Bases(kind) ==
    CASE kind = "PermissionError" -> {"PermissionError", "OSError", "Exception"}
      [] kind = "ValueError" -> {"ValueError", "Exception"}
      [] OTHER -> {kind, "Exception"}

\* except exceptions as e: does the clause catch an exception of this kind
Caught(kind, exceptions) == Bases(kind) \cap exceptions # {}

\* A variant of LastAttempt: the wrapper without `if attempt == max_attempts - 1: raise`.
LastAttemptUnchecked(attempt, most) == FALSE

\* if attempt == max_attempts - 1
LastAttempt(attempt, most) == attempt = most - 1

\* min(base_delay * (backoff_factor ** attempt), max_delay)
CappedDelay(a, attempt) ==
    LET d == a.base_delay * (a.backoff_factor ^ attempt)
    IN  IF d < a.max_delay THEN d ELSE a.max_delay

\* jitter_range = delay * 0.25, in whole milliseconds
JitterRange(d) == d \div 4

\* random.uniform(-jitter_range, jitter_range)
Uniform(r) == {-r, 0, r} \cup (IF r >= 1 THEN {-1, 1} ELSE {})

\* What the wrapper has done so far, in order: a call of func with how it
\* ended (the value is known by the attempt that returned it), or a sleep.
CallEvent(attempt, kind) == [ev |-> "call", attempt |-> attempt, kind |-> kind, delay |-> 0]

SleepEvent(attempt, d) == [ev |-> "sleep", attempt |-> attempt, kind |-> "none", delay |-> d]

NotReturned == [outcome |-> "none", value |-> -1, exc |-> "none"]

\* for attempt in range(max_attempts): try: return func(*args, **kwargs)
\* except exceptions as e: ... raise / delay = ...
\* kind is how func ends this time: "value", or the kind of its exception.
wrapper_call(kind) ==
    /\ retry_pc = "call"
    /\ retry_attempt < retry_args.max_attempts
    /\ retry_trail' = Append(retry_trail, CallEvent(retry_attempt, kind))
    /\ IF kind = "value"
       THEN /\ retry_ret' = [outcome |-> "returned", value |-> retry_attempt, exc |-> "none"]
            /\ retry_pc' = "done"
            /\ UNCHANGED retry_delay
       ELSE IF ~Caught(kind, retry_args.exceptions)
               \/ LastAttempt(retry_attempt, retry_args.max_attempts)
       THEN /\ retry_ret' = [outcome |-> "raised", value |-> -1, exc |-> kind]
            /\ retry_pc' = "done"
            /\ UNCHANGED retry_delay
       ELSE /\ \E u \in Uniform(JitterRange(CappedDelay(retry_args, retry_attempt))) :
                   retry_delay' = CappedDelay(retry_args, retry_attempt)
                                      + (IF retry_args.jitter THEN u ELSE 0)
            /\ retry_pc' = "sleep"
            /\ UNCHANGED retry_ret
    /\ UNCHANGED <<retry_args, retry_attempt>>

\* time.sleep(delay), and the loop goes to its next turn
wrapper_sleep ==
    /\ retry_pc = "sleep"
    /\ retry_trail' = Append(retry_trail, SleepEvent(retry_attempt, retry_delay))
    /\ retry_attempt' = retry_attempt + 1
    /\ retry_pc' = "call"
    /\ UNCHANGED <<retry_args, retry_delay, retry_ret>>

\* The loop is over with no return and no raise:
\* raise last_exception or Exception(...)
wrapper_fallthrough ==
    /\ retry_pc = "call"
    /\ retry_attempt >= retry_args.max_attempts
    /\ retry_ret' = [outcome |-> "raised", value |-> -1,
                     exc |-> IF retry_trail = <<>> THEN "Exception"
                             ELSE retry_trail[Len(retry_trail) - 1].kind]
    /\ retry_pc' = "done"
    /\ UNCHANGED <<retry_args, retry_attempt, retry_delay, retry_trail>>

\* The most attempts a wrapper is given.
MaxAttempts == 3

\* The arguments of retry_with_backoff: attempts from none to MaxAttempts,
\* delays of 0.5 s, 1 s and 2 s, a cap at or above some of them, factors 1
\* and 2, jitter on and off, every exception caught or OSError only.
RetryArgs ==
    [max_attempts : 0..MaxAttempts,
     base_delay : {500, 1000, 2000},
     max_delay : {1000, 3000},
     backoff_factor : {1, 2},
     jitter : BOOLEAN,
     exceptions : {{"Exception"}, {"OSError"}}]

\* How func can end on an attempt
FuncOutcomes == {"value", "PermissionError", "ValueError"}

-----------------------------------------------------------------------------
(* OCRWorker.process_image under its retry_with_backoff(max_attempts=2)    *)
(* wrapper, called by threads of the executor for tasks bound to one       *)
(* worker.  Every call uses the timer "ocr_worker_<worker_id>" of the       *)
(* module's one PerformanceLogger; end_timer tests for the key, reads it    *)
(* and deletes it in three steps.                                           *)

\* A thread's call: where it is, the wrapper's loop variable, what the try
\* block of process_image has ready to return or raise, how each attempt's
\* recognition went, and how the call ended.
NotEnded == [outcome |-> "none", value |-> 0, exc |-> "none", original_error |-> "none"]

Run == [pc |-> "start_timer", attempt |-> 0, raw |-> "none", attempts |-> <<>>, ended |-> NotEnded]

\* return result, out of the wrapper: the fragments of this attempt
ReturnResult(run) ==
    [run EXCEPT !.pc = "done",
                !.ended = [NotEnded EXCEPT !.outcome = "returned", !.value = run.attempt]]

\* An exception of process_image reaches the wrapper: except exceptions as e,
\* raise on the last attempt, else the delay and time.sleep
WrapperCatch(run, exc, original_error) ==
    IF ~Caught(exc, {"Exception"}) \/ LastAttempt(run.attempt, max_attempts)
    THEN [run EXCEPT !.pc = "done",
                     !.ended = [NotEnded EXCEPT !.outcome = "raised", !.exc = exc,
                                                !.original_error = original_error]]
    ELSE [run EXCEPT !.pc = "sleep"]

\* The finally clause is through: what the try block had ready happens.
\* except Exception as e: raise PDFParsingError("", ..., original_error=e)
AfterFinally(run) ==
    IF run.raw = "result" THEN ReturnResult(run)
    ELSE WrapperCatch(run, "PDFParsingError", run.raw)

\* The finally clause raises KeyError: it takes the place of the result or
\* of the PDFParsingError.
FinallyRaises(run) == WrapperCatch(run, "KeyError", "none")

\* perf_logger.start_timer(f"ocr_worker_{self.worker_id}")
worker_start_timer(t) ==
    /\ runs[t].pc = "start_timer"
    /\ ocr_start_times' = TRUE
    /\ runs' = [runs EXCEPT ![t].pc = "recognize"]

\* The try block: preprocess_for_ocr, get_reader, readtext and the count.
\* It has a result, or an exception of the preprocessing (ValueError) or of
\* readtext (RuntimeError).
recognize(t, how) ==
    /\ runs[t].pc = "recognize"
    /\ runs' = [runs EXCEPT ![t].pc = "end_timer",
                            ![t].raw = IF how = "ok" THEN "result" ELSE how,
                            ![t].attempts = Append(@, how)]
    /\ UNCHANGED ocr_start_times

\* finally: perf_logger.end_timer(...): if operation not in self._start_times: return 0.0
worker_end_timer(t) ==
    /\ runs[t].pc = "end_timer"
    /\ runs' = [runs EXCEPT ![t] = IF ocr_start_times THEN [@ EXCEPT !.pc = "end_timer_read"]
                                   ELSE AfterFinally(@)]
    /\ UNCHANGED ocr_start_times

\* elapsed = time.perf_counter() - self._start_times[operation]
worker_end_timer_read(t) ==
    /\ runs[t].pc = "end_timer_read"
    /\ runs' = [runs EXCEPT ![t] = IF ocr_start_times THEN [@ EXCEPT !.pc = "end_timer_del"]
                                   ELSE FinallyRaises(@)]
    /\ UNCHANGED ocr_start_times

\* del self._start_times[operation], and the rest of end_timer
worker_end_timer_del(t) ==
    /\ runs[t].pc = "end_timer_del"
    /\ runs' = [runs EXCEPT ![t] = IF ocr_start_times THEN AfterFinally(@)
                                   ELSE FinallyRaises(@)]
    /\ ocr_start_times' = FALSE

\* time.sleep(delay) in the wrapper, and the next attempt
worker_sleep(t) ==
    /\ runs[t].pc = "sleep"
    /\ runs' = [runs EXCEPT ![t].pc = "start_timer", ![t].attempt = @ + 1, ![t].raw = "none"]
    /\ UNCHANGED ocr_start_times

\* How the try block of an attempt can go
RecognitionOutcomes == {"ok", "ValueError", "RuntimeError"}

\* The most tasks bound to one worker that run at a time (the threads of the
\* executor, max_workers of them, take whatever task is next)
MaxOverlap == 2

-----------------------------------------------------------------------------
(* The specifications                                                      *)

\* OCRPool.__init__(max_workers=n), and the threads that will call the pool
OCRPool(n, clients) ==
    /\ max_workers = n
    /\ _executor = "None"
    /\ _workers = <<>>
    /\ _lock = 0
    /\ heap = <<>>
    /\ tasks = <<>>
    /\ queue = <<>>
    /\ pc = [c \in clients |-> "idle"]
    /\ loc = [c \in clients |-> NoLocals]
    /\ ret = [c \in clients |-> NoCall]
    /\ batches = 0
    /\ phase = "new"
    /\ roster_id = 0

\* No comparison is called for.
NoComparison ==
    /\ app_json = Doc("dict", <<>>)
    /\ inv_json = Doc("dict", <<>>)
    /\ cmp_result = NoResult
    /\ cmp_again = NoResult

\* No pool is used: one is constructed and left alone.
NoPool == OCRPool(1, {1})

\* No file is parsed.
NoPdf ==
    /\ file_paths = <<>>
    /\ use_ocr_pool = TRUE
    /\ results = <<>>
    /\ parsed = <<>>
    /\ pdf_returned = FALSE

\* No image is preprocessed.
NoImage ==
    /\ image = Image("RGB", <<0, 0>>)
    /\ max_width = 1
    /\ max_height = 1
    /\ factors = <<10, 10, 10>>
    /\ resized = NotCalled
    /\ enhanced = NotCalled

\* The registry is empty and not used.
NoArtifacts ==
    /\ _ARTIFACTS = {}
    /\ fs = [f \in Files |-> "missing"]
    /\ calls = <<>>
    /\ report = NoReport

\* The global pool, with the threads that will call for it; none is made yet.
GlobalPool(threads) ==
    /\ _global_ocr_pool = 0
    /\ _pool_lock = 0
    /\ pools = <<>>
    /\ stage = [t \in threads |-> "idle"]
    /\ args = [t \in threads |-> NoConfig]
    /\ got = [t \in threads |-> NoGlobalCall]
    /\ first_config = NoConfig
    /\ shutdowns = 0

\* No thread calls for the global pool.
NoGlobalPool == GlobalPool({})

\* No files are processed in parallel.
NoPipeline ==
    /\ pipeline_files = <<>>
    /\ jobs = <<>>
    /\ _start_times = FALSE
    /\ pipeline_results = <<>>
    /\ collected = {}
    /\ pipeline_returned = FALSE
    /\ file_contents = NotBuilt

\* No function is retried.
NoRetry ==
    /\ retry_args = [max_attempts |-> 0, base_delay |-> 0, max_delay |-> 0,
                     backoff_factor |-> 1, jitter |-> FALSE, exceptions |-> {}]
    /\ retry_attempt = 0
    /\ retry_delay = 0
    /\ retry_trail = <<>>
    /\ retry_pc = "done"
    /\ retry_ret = NotReturned

\* No worker is called.
NoWorker ==
    /\ runs = <<>>
    /\ ocr_start_times = FALSE

\* config is not imported and nothing is preprocessed.
NoPreprocess ==
    /\ secrets = Absent
    /\ environ = Absent
    /\ OCR_DENOISE = Absent
    /\ preprocessed = NotCalled

\* The variables a specification of one part leaves alone
but_cmp == <<pool_vars, pdf_vars, image_vars, artifacts_vars, global_vars, pipeline_vars, retry_vars, worker_vars, preprocess_vars>>
but_pool == <<cmp_vars, pdf_vars, image_vars, artifacts_vars, global_vars, pipeline_vars, retry_vars, worker_vars, preprocess_vars>>
but_pdf == <<cmp_vars, pool_vars, image_vars, artifacts_vars, global_vars, pipeline_vars, retry_vars, worker_vars, preprocess_vars>>
but_image == <<cmp_vars, pool_vars, pdf_vars, artifacts_vars, global_vars, pipeline_vars, retry_vars, worker_vars, preprocess_vars>>
but_artifacts == <<cmp_vars, pool_vars, pdf_vars, image_vars, global_vars, pipeline_vars, retry_vars, worker_vars, preprocess_vars>>
but_global == <<cmp_vars, pool_vars, pdf_vars, image_vars, artifacts_vars, pipeline_vars, retry_vars, worker_vars, preprocess_vars>>
but_pipeline == <<cmp_vars, pool_vars, pdf_vars, image_vars, artifacts_vars, global_vars, retry_vars, worker_vars, preprocess_vars>>
but_worker == <<cmp_vars, pool_vars, pdf_vars, image_vars, artifacts_vars, global_vars, pipeline_vars, retry_vars, preprocess_vars>>
but_preprocess == <<cmp_vars, pool_vars, pdf_vars, artifacts_vars, global_vars, pipeline_vars, retry_vars, worker_vars>>
but_retry == <<cmp_vars, pool_vars, pdf_vars, image_vars, artifacts_vars, global_vars, pipeline_vars, worker_vars, preprocess_vars>>

(* compare_items: two calls with the same documents; the pool is not used *)

CmpInit ==
    /\ \/ ListInputs(app_json, inv_json)
       \/ MalformedInputs(app_json, inv_json)
       \/ QuantityInputs(app_json, inv_json)
    /\ cmp_result = NoResult
    /\ cmp_again = NoResult
    /\ NoPool
    /\ NoPdf
    /\ NoImage
    /\ NoArtifacts
    /\ NoGlobalPool
    /\ NoPipeline
    /\ NoRetry
    /\ NoWorker
    /\ NoPreprocess

CompareItems ==
    /\ cmp_result = NoResult
    /\ \E order \in Orders(AllKeys(app_json, inv_json)) :
           cmp_result' = compare_items(app_json, inv_json, order)
    /\ UNCHANGED <<app_json, inv_json, cmp_again, but_cmp>>

CompareItemsAgain ==
    /\ cmp_result # NoResult
    /\ cmp_again = NoResult
    /\ \E order \in Orders(AllKeys(app_json, inv_json)) :
           cmp_again' = compare_items(app_json, inv_json, order)
    /\ UNCHANGED <<app_json, inv_json, cmp_result, but_cmp>>

CmpNext == CompareItems \/ CompareItemsAgain

Spec == CmpInit /\ [][CmpNext]_vars

(* One pool, its client threads and the threads of its executor *)

Clients == DOMAIN pc

\* The client thread that has images recognized is thread 1; a second client
\* thread manages the pool (start, shutdown, get_stats) beside it.
Callers == Clients \cap {1}

\* A step of a client thread that is inside process_images
BatchStep(c) ==
    \/ pick_index(c)
    \/ pick_worker(c)
    \/ submit(c)
    \/ as_completed(c)
    \/ collect(c)
    \/ return_texts(c)

\* A step of a thread of the executor
TaskStep(t) ==
    \/ take(t)
    \/ get_reader(t)
    \/ Reader(t)
    \/ readtext(t)
    \/ count_load(t)
    \/ count_store(t)

PoolNext ==
    \/ \E c \in Clients : start(c) /\ UNCHANGED but_pool
    \/ \E c \in Clients : start_workers(c) /\ UNCHANGED but_pool
    \/ \E c \in Clients : shutdown(c) /\ UNCHANGED but_pool
    \/ \E c \in Clients : shutdown_wait(c) /\ UNCHANGED but_pool
    \/ \E c \in Clients : shutdown_clear(c) /\ UNCHANGED but_pool
    \/ \E c \in Clients : get_stats(c) /\ UNCHANGED but_pool
    \/ \E c \in Callers, n \in 0..MaxBatch : process_images(c, n) /\ UNCHANGED but_pool
    \/ \E c \in Clients : pick_index(c) /\ UNCHANGED but_pool
    \/ \E c \in Clients : pick_worker(c) /\ UNCHANGED but_pool
    \/ \E c \in Clients : submit(c) /\ UNCHANGED but_pool
    \/ \E c \in Clients : as_completed(c) /\ UNCHANGED but_pool
    \/ \E c \in Clients : collect(c) /\ UNCHANGED but_pool
    \/ \E c \in Clients : return_texts(c) /\ UNCHANGED but_pool
    \/ \E t \in DOMAIN tasks : take(t) /\ UNCHANGED but_pool
    \/ \E t \in DOMAIN tasks : get_reader(t) /\ UNCHANGED but_pool
    \/ \E t \in DOMAIN tasks : Reader(t) /\ UNCHANGED but_pool
    \/ \E t \in DOMAIN tasks : readtext(t) /\ UNCHANGED but_pool
    \/ \E t \in DOMAIN tasks : count_load(t) /\ UNCHANGED but_pool
    \/ \E t \in DOMAIN tasks : count_store(t) /\ UNCHANGED but_pool

\* One client thread
PoolInit == NoComparison /\ NoPdf /\ NoImage /\ NoArtifacts /\ NoGlobalPool /\ NoPipeline /\ NoRetry /\ NoWorker /\ NoPreprocess /\ \E n \in 1..MaxWorkers : OCRPool(n, {1})

SpecPool == PoolInit /\ [][PoolNext]_vars

\* Two client threads: the caller of process_images and a manager of the pool
PoolInit2 == NoComparison /\ NoPdf /\ NoImage /\ NoArtifacts /\ NoGlobalPool /\ NoPipeline /\ NoRetry /\ NoWorker /\ NoPreprocess /\ \E n \in 1..MaxWorkers : OCRPool(n, {1, 2})

SpecPool2 == PoolInit2 /\ [][PoolNext]_vars

\* One client thread; a thread that can take a step takes one in the end:
\* the threads of the executor, and the client inside process_images.
Fairness ==
    /\ WF_vars(\E t \in DOMAIN tasks : TaskStep(t) /\ UNCHANGED but_pool)
    /\ WF_vars(\E c \in Clients : BatchStep(c) /\ UNCHANGED but_pool)

SpecPoolFair == PoolInit /\ [][PoolNext]_vars /\ Fairness

(* parse_multiple_pdfs, and parse_pdf in it, on files of every kind *)

PdfInit ==
    /\ \/ OneFileInputs(file_paths, use_ocr_pool)
       \/ FileListInputs(file_paths, use_ocr_pool)
    /\ results = <<>>
    /\ parsed = <<>>
    /\ pdf_returned = FALSE
    /\ NoComparison
    /\ NoPool
    /\ NoImage
    /\ NoArtifacts
    /\ NoGlobalPool
    /\ NoPipeline
    /\ NoRetry
    /\ NoWorker
    /\ NoPreprocess

PdfNext ==
    \/ parse_next_pdf /\ UNCHANGED but_pdf
    \/ return_results /\ UNCHANGED but_pdf

SpecPdf == PdfInit /\ [][PdfNext]_vars


(* ImagePreprocessor: resize_if_needed and enhance_image on one image *)

ImageInit ==
    /\ ImageInputs
    /\ resized = NotCalled
    /\ enhanced = NotCalled
    /\ NoComparison
    /\ NoPool
    /\ NoPdf
    /\ NoArtifacts
    /\ NoGlobalPool
    /\ NoPipeline
    /\ NoRetry
    /\ NoWorker
    /\ NoPreprocess

ImageNext ==
    \/ call_resize_if_needed /\ UNCHANGED but_image
    \/ call_enhance_image /\ UNCHANGED but_image

SpecImage == ImageInit /\ [][ImageNext]_vars

(* The artifact registry: calls in any order, on any files *)

ArtifactsInit ==
    /\ _ARTIFACTS = {}
    /\ fs \in FileSystems
    /\ calls = <<>>
    /\ report = NoReport
    /\ NoComparison
    /\ NoPool
    /\ NoPdf
    /\ NoImage
    /\ NoGlobalPool
    /\ NoPipeline
    /\ NoRetry
    /\ NoWorker
    /\ NoPreprocess

ArtifactsNext ==
    \/ \E path \in PathInputs : register(path) /\ UNCHANGED but_artifacts
    \/ \E path \in PathInputs : discard(path) /\ UNCHANGED but_artifacts
    \/ clear /\ UNCHANGED but_artifacts
    \/ \E delete_missing_ok \in BOOLEAN : cleanup(delete_missing_ok) /\ UNCHANGED but_artifacts

SpecArtifacts == ArtifactsInit /\ [][ArtifactsNext]_vars

(* The global pool and two threads calling for it and shutting it down *)

Threads == DOMAIN stage

GlobalInit ==
    /\ GlobalPool({1, 2})
    /\ NoComparison
    /\ NoPool
    /\ NoPdf
    /\ NoImage
    /\ NoArtifacts
    /\ NoPipeline
    /\ NoRetry
    /\ NoWorker
    /\ NoPreprocess

GlobalNext ==
    \/ \E t \in Threads, config \in Configs :
           get_global_ocr_pool(t, config) /\ UNCHANGED but_global
    \/ \E t \in Threads : construct_pool(t) /\ UNCHANGED but_global
    \/ \E t \in Threads : start_pool(t) /\ UNCHANGED but_global
    \/ \E t \in Threads : return_pool(t) /\ UNCHANGED but_global
    \/ \E t \in Threads : shutdown_global_ocr_pool(t) /\ UNCHANGED but_global
    \/ \E t \in Threads : shutdown_pool(t) /\ UNCHANGED but_global

SpecGlobal == GlobalInit /\ [][GlobalNext]_vars

(* process_files_parallel on files of every kind *)

PipelineInit ==
    /\ PipelineInputs
    /\ jobs = [j \in DOMAIN pipeline_files |-> Submitted]
    /\ _start_times = FALSE
    /\ pipeline_results = <<>>
    /\ collected = {}
    /\ pipeline_returned = FALSE
    /\ file_contents = NotBuilt
    /\ NoComparison
    /\ NoPool
    /\ NoPdf
    /\ NoImage
    /\ NoArtifacts
    /\ NoGlobalPool
    /\ NoRetry
    /\ NoWorker
    /\ NoPreprocess

PipelineNext ==
    \/ \E j \in DOMAIN jobs : start_timer(j) /\ UNCHANGED but_pipeline
    \/ \E j \in DOMAIN jobs : parse_file(j) /\ UNCHANGED but_pipeline
    \/ \E j \in DOMAIN jobs : end_timer(j) /\ UNCHANGED but_pipeline
    \/ \E j \in DOMAIN jobs : end_timer_del(j) /\ UNCHANGED but_pipeline
    \/ \E j \in DOMAIN jobs : failed_end_timer(j) /\ UNCHANGED but_pipeline
    \/ \E j \in DOMAIN jobs : failed_end_timer_del(j) /\ UNCHANGED but_pipeline
    \/ \E j \in DOMAIN jobs : collect_result(j) /\ UNCHANGED but_pipeline
    \/ return_pipeline /\ UNCHANGED but_pipeline
    \/ run_processing /\ UNCHANGED but_pipeline

SpecPipeline == PipelineInit /\ [][PipelineNext]_vars

(* retry_with_backoff: one call of the wrapper, with every argument *)

RetryInit ==
    /\ retry_args \in RetryArgs
    /\ retry_attempt = 0
    /\ retry_delay = 0
    /\ retry_trail = <<>>
    /\ retry_pc = "call"
    /\ retry_ret = NotReturned
    /\ NoComparison
    /\ NoPool
    /\ NoPdf
    /\ NoImage
    /\ NoArtifacts
    /\ NoGlobalPool
    /\ NoPipeline
    /\ NoWorker
    /\ NoPreprocess

RetryNext ==
    \/ \E kind \in FuncOutcomes : wrapper_call(kind) /\ UNCHANGED but_retry
    \/ wrapper_sleep /\ UNCHANGED but_retry
    \/ wrapper_fallthrough /\ UNCHANGED but_retry

SpecRetry == RetryInit /\ [][RetryNext]_vars

(* process_image calls on one worker, by one thread or by several at a time *)

WorkerInit ==
    /\ \E n \in 1..MaxOverlap : runs = [t \in 1..n |-> Run]
    /\ ocr_start_times = FALSE
    /\ NoComparison
    /\ NoPool
    /\ NoPdf
    /\ NoImage
    /\ NoArtifacts
    /\ NoGlobalPool
    /\ NoPipeline
    /\ NoRetry
    /\ NoPreprocess

WorkerNext ==
    \/ \E t \in DOMAIN runs : worker_start_timer(t) /\ UNCHANGED but_worker
    \/ \E t \in DOMAIN runs, how \in RecognitionOutcomes : recognize(t, how) /\ UNCHANGED but_worker
    \/ \E t \in DOMAIN runs : worker_end_timer(t) /\ UNCHANGED but_worker
    \/ \E t \in DOMAIN runs : worker_end_timer_read(t) /\ UNCHANGED but_worker
    \/ \E t \in DOMAIN runs : worker_end_timer_del(t) /\ UNCHANGED but_worker
    \/ \E t \in DOMAIN runs : worker_sleep(t) /\ UNCHANGED but_worker

SpecWorker == WorkerInit /\ [][WorkerNext]_vars

(* config imported with every OCR_DENOISE setting, then preprocess_for_ocr *)

PreprocessInit ==
    /\ PreprocessInputs
    /\ resized = NotCalled
    /\ enhanced = NotCalled
    /\ secrets \in SecretValues
    /\ environ \in EnvValues
    /\ OCR_DENOISE = Absent
    /\ preprocessed = NotCalled
    /\ NoComparison
    /\ NoPool
    /\ NoPdf
    /\ NoArtifacts
    /\ NoGlobalPool
    /\ NoPipeline
    /\ NoRetry
    /\ NoWorker

PreprocessNext ==
    \/ import_config /\ UNCHANGED but_preprocess
    \/ call_preprocess_for_ocr /\ UNCHANGED but_preprocess

SpecPreprocess == PreprocessInit /\ [][PreprocessNext]_vars
-----------------------------------------------------------------------------
(* Claims about compare_items                                              *)

\* The normalized article key of an item: its article trimmed and lowercased,
\* empty when the article is missing or null.
KeyOfItem(item) ==
    IF item.article.t \in {"absent", "none"} THEN <<>> ELSE Lower(Strip(PyStr(item.article)))

KeysOfDoc(doc) == {KeyOfItem(ItemsOf(doc)[i]) : i \in 1..Len(ItemsOf(doc))} \ {<<>>}

\* The key a result entry stands for.
KeyOfEntry(e) == Lower(Strip(e.article))

Occurrences(list, k) == Cardinality({i \in 1..Len(list) : KeyOfEntry(list[i]) = k})

InExactly(r, k, where) ==
    /\ Occurrences(r.matches, k) = (IF where = "matches" THEN 1 ELSE 0)
    /\ Occurrences(r.only_in_app, k) = (IF where = "only_in_app" THEN 1 ELSE 0)
    /\ Occurrences(r.only_in_inv, k) = (IF where = "only_in_inv" THEN 1 ELSE 0)

EntryKeys(r) ==
    {KeyOfEntry(r.matches[i]) : i \in 1..Len(r.matches)}
        \cup {KeyOfEntry(r.only_in_app[i]) : i \in 1..Len(r.only_in_app)}
        \cup {KeyOfEntry(r.only_in_inv[i]) : i \in 1..Len(r.only_in_inv)}

\* The last item of a document with key k.
LastWith(doc, k) ==
    LET items == ItemsOf(doc)
        at == {i \in 1..Len(items) : KeyOfItem(items[i]) = k}
    IN  items[CHOOSE i \in at : \A j \in at : j <= i]

EntryFor(list, k) == list[CHOOSE i \in 1..Len(list) : KeyOfEntry(list[i]) = k]

\* C1: whenever compare_items returns, every non-empty normalized article key
\* of either document has exactly one entry, in matches iff it is a key of both
\* documents, in only_in_app iff of the application only, in only_in_inv iff of
\* the invoice only; no list has an entry for anything else (items with an
\* empty key produce no entry).
C1_Partition ==
    cmp_result.status = "returned" =>
        LET A == KeysOfDoc(app_json)
            B == KeysOfDoc(inv_json)
        IN  /\ \A k \in A \cap B : InExactly(cmp_result, k, "matches")
            /\ \A k \in A \ B : InExactly(cmp_result, k, "only_in_app")
            /\ \A k \in B \ A : InExactly(cmp_result, k, "only_in_inv")
            /\ EntryKeys(cmp_result) \subseteq A \cup B
            /\ Len(cmp_result.matches) + Len(cmp_result.only_in_app)
                   + Len(cmp_result.only_in_inv) = Cardinality(A \cup B)

\* C1 witness: a returned result with a match and an application-only key, from
\* an application that also holds an item with a blank article.
C1_Witness ==
    /\ cmp_result.status = "returned"
    /\ cmp_result.matches # <<>>
    /\ cmp_result.only_in_app # <<>>
    /\ \E i \in 1..Len(ItemsOf(app_json)) : KeyOfItem(ItemsOf(app_json)[i]) = <<>>

\* The string form of a raw quantity, as C2 states it: empty for a missing (or
\* null) quantity, str() of anything else, 0 included.
StringForm(q) == IF q.t \in {"absent", "none"} THEN <<>> ELSE PyStr(q)

IsNumber(q) == _parse_qty(Str(StringForm(q))).ok

\* C2 as stated: for every matched article, same_qty is true exactly when both
\* quantities parse to numbers that differ by less than 1e-9, or the trimmed
\* string forms of the two raw quantities are identical.
C2_SameQtyAsStated ==
    cmp_result.status = "returned" =>
        \A i \in 1..Len(cmp_result.matches) :
            LET e == cmp_result.matches[i]
                p == LastWith(app_json, KeyOfEntry(e)).quantity
                q == LastWith(inv_json, KeyOfEntry(e)).quantity
            IN  e.same_qty <=>
                    \/ /\ IsNumber(p)
                       /\ IsNumber(q)
                       /\ AbsDiffBelowEps(_parse_qty(Str(StringForm(p))),
                                          _parse_qty(Str(StringForm(q))))
                    \/ Strip(StringForm(p)) = Strip(StringForm(q))

Ascending(list) ==
    \A i \in 1..(Len(list) - 1) : StrLess(KeyOfEntry(list[i]), KeyOfEntry(list[i + 1]))

\* C3: each of the three lists compare_items returns is in strictly ascending
\* order of normalized article key, and a second call with the same documents
\* returns the same result, whatever order the key set is iterated in.
C3_SortedAndRepeatable ==
    /\ cmp_result.status = "returned" =>
           /\ Ascending(cmp_result.matches)
           /\ Ascending(cmp_result.only_in_app)
           /\ Ascending(cmp_result.only_in_inv)
    /\ cmp_again # NoResult => cmp_again = cmp_result

\* C3 witness: a second call has returned, and lists hold two entries or more.
C3_Witness ==
    /\ cmp_again.status = "returned"
    /\ Len(cmp_again.matches) >= 2

\* C9 as stated: compare_items never raises, also when an entry of an items
\* collection is null or no key-value record.
C9_NeverRaises == cmp_result.status # "raised"

\* C10: when items of one document share a normalized key, the entry of that
\* key is the one the last of them alone gives: its article, quantity and unit
\* are the last item's, and same_qty and same_unit compare the last items.
C10_LastWriteWins ==
    cmp_result.status = "returned" =>
        /\ \A i \in 1..Len(cmp_result.matches) :
               LET e == cmp_result.matches[i]
                   a == LastWith(app_json, KeyOfEntry(e))
                   b == LastWith(inv_json, KeyOfEntry(e))
               IN  /\ e.article = Strip(PyStr(a.article))
                   /\ e.app_qty = QtyText(Get(a.quantity))
                   /\ e.inv_qty = QtyText(Get(b.quantity))
                   /\ e.app_unit = _norm_unit(Get(a.unit))
                   /\ e.inv_unit = _norm_unit(Get(b.unit))
                   /\ e.same_qty = SameQty(Get(a.quantity), Get(b.quantity))
                   /\ e.same_unit = (_norm_unit(Get(a.unit)) = _norm_unit(Get(b.unit)))
        /\ \A i \in 1..Len(cmp_result.only_in_app) :
               LET e == cmp_result.only_in_app[i]
                   a == LastWith(app_json, KeyOfEntry(e))
               IN  /\ e.article = Strip(PyStr(a.article))
                   /\ e.app_qty = QtyText(Get(a.quantity))
                   /\ e.app_unit = _norm_unit(Get(a.unit))
        /\ \A i \in 1..Len(cmp_result.only_in_inv) :
               LET e == cmp_result.only_in_inv[i]
                   b == LastWith(inv_json, KeyOfEntry(e))
               IN  /\ e.article = Strip(PyStr(b.article))
                   /\ e.inv_qty = QtyText(Get(b.quantity))
                   /\ e.inv_unit = _norm_unit(Get(b.unit))

HasDuplicate(doc) ==
    \E i, j \in 1..Len(ItemsOf(doc)) :
        /\ i < j
        /\ KeyOfItem(ItemsOf(doc)[i]) # <<>>
        /\ KeyOfItem(ItemsOf(doc)[i]) = KeyOfItem(ItemsOf(doc)[j])
        /\ ItemsOf(doc)[i] # ItemsOf(doc)[j]

\* C10 witness: a returned result with a match, from documents that both hold
\* two different items with one key.
C10_Witness ==
    /\ cmp_result.status = "returned"
    /\ cmp_result.matches # <<>>
    /\ HasDuplicate(app_json)
    /\ HasDuplicate(inv_json)


\* The quantity is missing, null or a blank text.
BlankQty(q) == q.t \in {"absent", "none"} \/ (q.t = "str" /\ Strip(q.s) = <<>>)

\* qty is the trimmed string form of the raw quantity q, and is empty only
\* when q is missing, null or blank.
QtyAsStated(qty, q) ==
    /\ qty = Strip(StringForm(q))
    /\ qty = <<>> => BlankQty(q)

\* C27: in every entry of a compare_items result, app_qty / inv_qty is the
\* trimmed string form of the raw quantity of the item the entry stands for,
\* and it is empty only when that quantity is missing, null or blank.
C27_QtyStringForm ==
    cmp_result.status = "returned" =>
        /\ \A i \in 1..Len(cmp_result.matches) :
               LET e == cmp_result.matches[i]
               IN  /\ QtyAsStated(e.app_qty, LastWith(app_json, KeyOfEntry(e)).quantity)
                   /\ QtyAsStated(e.inv_qty, LastWith(inv_json, KeyOfEntry(e)).quantity)
        /\ \A i \in 1..Len(cmp_result.only_in_app) :
               LET e == cmp_result.only_in_app[i]
               IN  QtyAsStated(e.app_qty, LastWith(app_json, KeyOfEntry(e)).quantity)
        /\ \A i \in 1..Len(cmp_result.only_in_inv) :
               LET e == cmp_result.only_in_inv[i]
               IN  QtyAsStated(e.inv_qty, LastWith(inv_json, KeyOfEntry(e)).quantity)
-----------------------------------------------------------------------------
(* Properties of OCRPool                                                   *)

RECURSIVE TextsOf(_)
\* The fragment lists of the images imgs, one after the other.
TextsOf(imgs) ==
    IF imgs = <<>> THEN <<>> ELSE Fragments(Head(imgs)) \o TextsOf(Tail(imgs))

Elements(seq) == {seq[k] : k \in 1..Len(seq)}

\* The images of the call that ended as r that were recognized, in the order
\* in which their tasks finished.
SucceededInOrder(r) == SelectSeq(r.completed, LAMBDA img : img \in r.succeeded)

\* r is how a process_images call with images ended on a pool that was active.
OfBatch(r) == r.op = "process_images" /\ r.n >= 1 /\ r.phase = "started"

ProcessImagesCalled(c) ==
    /\ pc[c] = "idle"
    /\ \/ pc'[c] = "pick_index"
       \/ /\ ret'[c] # ret[c]
          /\ ret'[c].op = "process_images"
          /\ ret'[c].n >= 1

\* C5: a process_images call with one image or more on a pool that was never
\* started, or whose shutdown has returned, raises RuntimeError at once; no
\* task is submitted and no worker's counter changes.
C5_ExplicitFailure ==
    [][\A c \in Clients :
           (ProcessImagesCalled(c) /\ phase \in {"new", "shut_down"}) =>
               /\ pc'[c] = "idle"
               /\ ret'[c].outcome = "raised"
               /\ ret'[c].exc = "RuntimeError"
               /\ ret'[c].submitted = 0
               /\ UNCHANGED <<tasks, queue, heap, batches, _executor, _workers>>]_vars

\* C5 witness: a call with images after shutdown has returned ended in the
\* RuntimeError.
C5_Witness ==
    \E c \in Clients :
        /\ ret[c].op = "process_images"
        /\ ret[c].n >= 1
        /\ ret[c].phase = "shut_down"
        /\ ret[c].exc = "RuntimeError"
        /\ phase = "shut_down"

\* C6: a process_images call on an active pool that returns has submitted one
\* task for every image, and every one of them has finished by then, none is
\* left running; and the call, once accepted, returns in the end.
C6_BatchBarrier ==
    /\ [](LET r == ret[1]
          IN  (OfBatch(r) /\ r.outcome = "returned") =>
                  /\ r.submitted = r.n
                  /\ Len(r.completed) = r.n
                  /\ r.unfinished = {}
                  /\ (pc[1] = "idle" => Unfinished = {}))
    /\ (pc[1] = "pick_index" /\ loc[1].i = 0)
           ~> (pc[1] = "idle" /\ OfBatch(ret[1]) /\ ret[1].outcome = "returned")

\* C6 witness: a batch of more images than the pool has workers has
\* returned, all its tasks finished.
C6_Witness ==
    /\ pc[1] = "idle"
    /\ OfBatch(ret[1])
    /\ ret[1].outcome = "returned"
    /\ ret[1].n > max_workers
    /\ ret[1].submitted = ret[1].n
    /\ Len(ret[1].completed) = ret[1].n

EarlySucceeded(r) == Elements(SubSeq(r.completed, 1, r.early)) \cap r.succeeded

\* The recognized images whose tasks finished later, in the order they finished
LateSucceeded(r) ==
    SelectSeq(SubSeq(r.completed, r.early + 1, Len(r.completed)),
              LAMBDA img : img \in r.succeeded)

C8_ShutdownDrains ==
    /\ phase = "shut_down" =>
           /\ Unfinished = {}
           /\ queue = <<>>
           /\ _executor = "None"
           /\ _workers = <<>>
    /\ \A c \in Clients :
           (ret[c].op = "get_stats" /\ ret[c].phase = "shut_down") =>
               ret[c].stats.active = FALSE

\* C8 witness: a shutdown that had tasks to wait for has returned, and
\* get_stats has been called since by the other client.
C8_Witness ==
    /\ phase = "shut_down"
    /\ \E c, d \in Clients :
           /\ ret[c].op = "shutdown"
           /\ ret[c].waited
           /\ ret[d].op = "get_stats"
           /\ ret[d].phase = "shut_down"
           /\ ret[d].stats.active = FALSE

\* C12: on an active pool with no batch in progress, what get_stats gives as
\* total_processed is the number of images recognized since start (here: by
\* the batch that has just returned, the only one since start).
C12_TotalProcessed ==
    \A c \in Clients :
        (/\ pc[c] = "idle"
         /\ OfBatch(ret[c])
         /\ ret[c].outcome = "returned"
         /\ _executor = "running"
         /\ _lock = 0
         /\ Unfinished = {})
            => /\ Stats.active
               /\ Stats.total_processed = Cardinality(ret[c].succeeded)

\* C13: in a process_images call on an active pool, the task of the image at
\* 0-based position i is bound, from its submission to its end, to the worker
\* at index i mod max_workers of the pool's workers, whichever thread runs it
\* and whatever the other tasks have done.
C13_RoundRobin ==
    \A t \in DOMAIN tasks :
        /\ Len(_workers) = max_workers
        /\ tasks[t].worker = _workers[((tasks[t].img - 1) % max_workers) + 1]

\* C13 witness: with two workers, the third image has been recognized by the
\* first worker while the second image's task is still running.
C13_Witness ==
    /\ max_workers = 2
    /\ \E t, u \in DOMAIN tasks :
           /\ tasks[t].img = 3
           /\ tasks[t].pc = "ok"
           /\ tasks[t].worker = _workers[1]
           /\ tasks[u].img = 2
           /\ Running(u)

\* C15: process_images with no images returns the empty sequence, with no
\* task submitted, on a started pool, and ends in an explicit failure on a
\* pool that was never started or has been shut down.
C15_EmptyBatchNeedsStartedPool ==
    \A c \in Clients :
        LET r == ret[c]
        IN  (r.op = "process_images" /\ r.n = 0) =>
                /\ r.submitted = 0
                /\ r.phase = "started" => (r.outcome = "returned" /\ r.texts = <<>>)
                /\ r.phase \in {"new", "shut_down"} => r.outcome = "raised"

\* C20: a process_images call with images that ends after a shutdown by
\* another thread has returned either has completed its whole batch or raises the RuntimeError
\* of a pool that is not started, before any task is submitted; it fails in
\* no other way.
C20_NoUseAfterShutdown ==
    \A c \in Clients :
        LET r == ret[c]
        IN  (r.op = "process_images" /\ r.n >= 1 /\ r.phase = "shut_down") =>
                \/ /\ r.outcome = "returned"
                   /\ r.submitted = r.n
                   /\ Len(r.completed) = r.n
                \/ /\ r.outcome = "raised"
                   /\ r.exc = "RuntimeError"
                   /\ r.submitted = 0

\* The thread running task t is inside reader.readtext(...) on its worker's
\* engine: it has the reader from get_reader, and the call has not returned.
InRecognition(t) == tasks[t].pc = "readtext"

\* C21: at no time are two threads of the executor inside a recognition call
\* on the same worker's engine.
C21_EngineExclusive ==
    \A t, u \in DOMAIN tasks :
        (t # u /\ InRecognition(t) /\ InRecognition(u)) => tasks[t].worker # tasks[u].worker

\* C22: a worker constructs its recognition engine at most once in its life
\* (the workers are made by start and dropped by shutdown), whatever tasks
\* run on it and however the threads of the executor interleave.
C22_OneReaderPerWorker == \A w \in DOMAIN heap : heap[w].built <= 1

Distinct(seq) == \A i, j \in 1..Len(seq) : seq[i] = seq[j] => i = j

\* A step in which client c calls start
StartCalled(c) ==
    /\ pc[c] = "idle"
    /\ \/ pc'[c] = "start_workers"
       \/ ret'[c] # ret[c] /\ ret'[c].op = "start"

\* C23: however start() calls of several threads interleave, an executor is
\* created only for a pool that has none and a roster only in place of an
\* empty one, the roster of an active pool outside start() holds exactly
\* max_workers workers, all different, and a start() call on a pool that has
\* an executor returns at once and leaves the executor, the roster and the
\* workers with their counters as they are.
C23_SingleStart ==
    /\ [](( _executor = "running" /\ _lock = 0) =>
              (Len(_workers) = max_workers /\ Distinct(_workers)
                 /\ \A k \in 1..Len(_workers) : _workers[k] \in DOMAIN heap))
    /\ [][/\ (_executor' = "running" /\ _executor # "running") => _executor = "None"
          /\ roster_id' # roster_id => (roster_id' = roster_id + 1 /\ _workers = <<>>)
          /\ \A c \in Clients :
                 (StartCalled(c) /\ _executor # "None") =>
                     /\ pc'[c] = "idle"
                     /\ ret'[c].outcome = "returned"
                     /\ UNCHANGED <<_executor, _workers, heap, roster_id>>]_vars

\* C23 witness: both client threads have called start and returned, one
\* roster has been created, the pool is active, and a worker of its has
\* counted an image.
C23_Witness ==
    /\ \A c \in Clients : ret[c].op = "start" /\ ret[c].outcome = "returned"
    /\ Cardinality(Clients) = 2
    /\ roster_id = 1
    /\ _executor = "running"
    /\ Len(_workers) = 2
    /\ \E k \in 1..Len(_workers) : heap[_workers[k]].processed_count > 0

-----------------------------------------------------------------------------
(* Properties of the global pool                                           *)

\* The pools that have an executor now
StartedPools == {i \in 1..Len(pools) : pools[i]._executor = "running"}

\* The get_global_ocr_pool calls that have returned, by the thread
Got(t) == got[t].op = "get_global_ocr_pool"

-----------------------------------------------------------------------------
(* Properties of PDFParser                                                 *)

\* Nothing fails for the file f: the path exists and, unless its direct text
\* is long enough, it is rasterized to one page image at least and the OCR
\* pool raises nothing.
NothingFails(f) ==
    /\ f.exists
    /\ \/ Len(_extract_text_with_pdfplumber(f)) > TextThreshold
       \/ f.raster = "ok" /\ f.pages # <<>> /\ ~f.pool_raises

\* parse_pdf returned the direct text and did nothing else.
ReturnedDirectText(f, p) ==
    /\ p.outcome = "returned"
    /\ p.text = _extract_text_with_pdfplumber(f)
    /\ ~p.rasterized
    /\ p.batches = <<>>
    /\ ~p.legacy

\* parse_pdf rasterized the pages, gave all the page images to the pool in
\* one batch and returned the recognized fragments joined by newlines.
ReturnedPoolText(f, p) ==
    /\ p.outcome = "returned"
    /\ p.rasterized
    /\ p.batches = <<Len(f.pages)>>
    /\ ~p.legacy
    /\ p.text = Join(Recognized(f.ocr), "nl")

\* parse_pdf rasterized the pages, recognized them with a reader of its own
\* without the pool, and returned the recognized fragments joined by newlines.
ReturnedLegacyText(f, p) ==
    /\ p.outcome = "returned"
    /\ p.rasterized
    /\ p.batches = <<>>
    /\ p.legacy
    /\ p.text = Join(Recognized(f.ocr), "nl")

-----------------------------------------------------------------------------
(* Properties of ImagePreprocessor                                         *)

\* x * a / b, rounded down
ScaledDown(x, a, b) == (x * a) \div b

\* C16: resize_if_needed returns the image given when it is within both
\* maxima; otherwise it returns the image scaled by the smaller of
\* max_width / width and max_height / height, each side rounded down, which
\* is within both maxima and no larger than the image given on either side.
C16_ResizeWithinLimits ==
    resized # NotCalled =>
        LET width == image.size[1]
            height == image.size[2]
            by_width == max_width * height <= max_height * width
        IN  /\ resized.outcome = "returned"
            /\ (width <= max_width /\ height <= max_height) => resized.image = image
            /\ ~(width <= max_width /\ height <= max_height) =>
                   /\ resized.image.size =
                          IF by_width
                          THEN <<ScaledDown(width, max_width, width),
                                 ScaledDown(height, max_width, width)>>
                          ELSE <<ScaledDown(width, max_height, height),
                                 ScaledDown(height, max_height, height)>>
                   /\ resized.image.size[1] <= max_width
                   /\ resized.image.size[2] <= max_height
                   /\ resized.image.size[1] <= width
                   /\ resized.image.size[2] <= height

\* C17 as stated: enhance_image with contrast, brightness and sharpness all
\* 1.0 returns an image identical to the one given, whatever its mode.
C17_IdentityInEveryMode ==
    (enhanced # NotCalled /\ factors = <<10, 10, 10>>) => enhanced.image = image

\* The enhancements asked for with a multiplier other than 1.0, in the order
\* contrast, brightness, sharpness
Asked ==
    SelectSeq(<<<<"Contrast", factors[1]>>, <<"Brightness", factors[2]>>,
                <<"Sharpness", factors[3]>>>>,
              LAMBDA asked : asked[2] # 10)

\* C17: enhance_image applies no enhancement whose multiplier is 1.0, and the
\* others in their order, to the image given when its mode is RGB and else
\* to its conversion to RGB; with all three multipliers 1.0 it returns the
\* image given when its mode is RGB, and else that conversion, unenhanced.
C17_UnitMultiplierSkipped ==
    enhanced # NotCalled =>
        LET base == IF image.mode = "RGB" THEN image ELSE ConvertRGB(image)
        IN  /\ enhanced.outcome = "returned"
            /\ enhanced.image = [base EXCEPT !.stages = @ \o Asked]
            /\ factors = <<10, 10, 10>> => enhanced.image = base

\* C17 witness: an RGBA image and multipliers all 1.0; what is returned is
\* the conversion to RGB, not the image given.
C17_Witness ==
    /\ image.mode = "RGBA"
    /\ factors = <<10, 10, 10>>
    /\ enhanced.outcome = "returned"
    /\ enhanced.image = ConvertRGB(image)
    /\ enhanced.image # image


\* C28: resize_if_needed fails for no size of the image: it divides by no
\* zero side (ZeroDivisionError) and asks resize for no side of 0, which
\* resize refuses (ValueError).
C28_NoFailureOnSize ==
    resized # NotCalled =>
        /\ resized.outcome = "returned"
        /\ resized.exc \notin {"ZeroDivisionError", "ValueError"}

\* preprocess_for_ocr returned an image the median filter was applied to
Denoised ==
    /\ preprocessed.outcome = "returned"
    /\ \E k \in 1..Len(preprocessed.image.stages) :
           preprocessed.image.stages[k] = <<"MedianFilter", 3>>

\* The setting of OCR_DENOISE that is in force: the value of secrets.json,
\* else that of the environment, else none
Override ==
    IF secrets.t # "absent" /\ secrets # None /\ secrets # Str(<<>>) THEN secrets ELSE environ

OnValues == {Str(<<"1">>), Str(<<"t", "r", "u", "e">>), Str(<<"T", "r", "u", "e">>), Int_(1), Bool_(TRUE)}

OffValues == {Str(<<"0">>), Str(<<"f", "a", "l", "s", "e">>), Str(<<"F", "a", "l", "s", "e">>), Int_(0), Bool_(FALSE)}

\* C29: when preprocess_for_ocr returns, the median filter was not applied
\* with no OCR_DENOISE override, was applied with an override that is an on
\* value (1, true) and was not applied with one that is an off value (0, false).
C29_DenoiseSetting ==
    preprocessed.outcome = "returned" =>
        /\ Override = Absent => ~Denoised
        /\ Override \in OnValues => Denoised
        /\ Override \in OffValues => ~Denoised
-----------------------------------------------------------------------------
(* Properties of the artifact registry.  A path is known to the registry   *)
(* by the str _to_rel makes of it: two spellings of a path inside the       *)
(* working directory are one path.                                          *)

\* The paths registered in the calls of log and not discarded or cleared by
\* a later call of it
Live(log) ==
    {_to_rel(log[i][2]) :
        i \in {i \in 1..Len(log) :
                  /\ log[i][1] = "register"
                  /\ \A j \in (i + 1)..Len(log) :
                         /\ log[j][1] \notin {"clear", "cleanup"}
                         /\ ~(log[j][1] = "discard" /\ _to_rel(log[j][2]) = _to_rel(log[i][2]))}}

\* The file the path names is inside the working directory.
Inside(path) == IsRelativeTo(Resolve(Path(path)), Cwd)

\* The files inside the working directory that were registered in the calls
\* of log, under any spelling, and not discarded, under any spelling, or
\* cleared by a later call of it
LiveInside(log) ==
    {FileOf(log[i][2]) :
        i \in {i \in 1..Len(log) :
                  /\ log[i][1] = "register"
                  /\ Inside(log[i][2])
                  /\ \A j \in (i + 1)..Len(log) :
                         /\ log[j][1] \notin {"clear", "cleanup"}
                         /\ ~(log[j][1] = "discard" /\ FileOf(log[j][2]) = FileOf(log[i][2]))}}

\* How many times the path rel stands in the sequence seq
TimesIn(seq, rel) == Cardinality({k \in 1..Len(seq) : seq[k] = rel})

-----------------------------------------------------------------------------
(* Properties of process_files_parallel                                    *)

\* The files whose parsing gave a text that is not empty, nor empty once
\* it is cleaned
ParsedToText == {j \in DOMAIN pipeline_files :
                    /\ pipeline_files[j].kind = "text"
                    /\ pipeline_files[j].text # <<>>
                    /\ clean_text(pipeline_files[j].text) # <<>>}

\* C18: when process_files_parallel has returned, its results hold exactly
\* one result for each file that parsed to a text that is not empty, whatever
\* the other files did, and nothing for the others.
C18_OneResultPerParsedFile ==
    pipeline_returned =>
        /\ \A j \in ParsedToText :
               Cardinality({k \in 1..Len(pipeline_results) : pipeline_results[k][1] = j}) = 1
        /\ Len(pipeline_results) = Cardinality(ParsedToText)


\* C26: every text that run_processing hands to the LLM carries the name of
\* the file it was extracted from, in whatever order the files' workers
\* finished and whichever files failed or gave no text.
C26_LabelledWithOwnFile ==
    file_contents.built =>
        \A k \in 1..Len(file_contents.pairs) :
            file_contents.pairs[k].name = file_contents.pairs[k].source
-----------------------------------------------------------------------------
(* Properties of retry_with_backoff                                        *)

\* The calls of func so far, in order
FuncCalls == SelectSeq(retry_trail, LAMBDA e : e.ev = "call")

\* A call of func that raised an exception the wrapper retries on
RetryableFailure(e) == e.kind # "value" /\ Caught(e.kind, retry_args.exceptions)

\* C25: a wrapper with max_attempts >= 1 calls func at most max_attempts
\* times; every call but the last one made raised a retryable exception, and
\* a sleep comes only between two calls.  Once the wrapper is over, the last
\* call decides: its value is returned, or its exception raised, and that
\* exception is outside the retryable set or is that of call max_attempts.
C25_RetryPolicy ==
    retry_args.max_attempts >= 1 =>
        LET n == Len(FuncCalls)
        IN  /\ n <= retry_args.max_attempts
            /\ \A k \in 1..(n - 1) : RetryableFailure(FuncCalls[k])
            /\ \A k \in 1..Len(retry_trail) :
                   retry_trail[k].ev = "sleep" =>
                       /\ k > 1
                       /\ retry_trail[k - 1].ev = "call"
                       /\ k < Len(retry_trail) => retry_trail[k + 1].ev = "call"
                       /\ retry_pc = "done" => k < Len(retry_trail)
            /\ retry_pc = "sleep" => (n >= 1 /\ RetryableFailure(FuncCalls[n])
                                        /\ n < retry_args.max_attempts)
            /\ retry_pc = "done" =>
                   /\ n >= 1
                   /\ retry_trail[Len(retry_trail)] = FuncCalls[n]
                   /\ IF FuncCalls[n].kind = "value"
                      THEN /\ retry_ret.outcome = "returned"
                           /\ retry_ret.value = FuncCalls[n].attempt
                      ELSE /\ retry_ret.outcome = "raised"
                           /\ retry_ret.exc = FuncCalls[n].kind
                           /\ ~RetryableFailure(FuncCalls[n]) \/ n = retry_args.max_attempts

\* C25 witness: with three attempts allowed, func failed twice with a
\* retryable exception, the wrapper slept twice, and the third call's value
\* was returned.
C25_Witness ==
    /\ retry_args.max_attempts = 3
    /\ retry_pc = "done"
    /\ Len(FuncCalls) = 3
    /\ Len(retry_trail) = 5
    /\ retry_ret.outcome = "returned"
    /\ retry_ret.value = 2

\* C30: no sleep of the wrapper is longer than max_delay.
C30_DelayWithinMax ==
    /\ \A k \in 1..Len(retry_trail) :
           retry_trail[k].ev = "sleep" => retry_trail[k].delay <= retry_args.max_delay
    /\ retry_pc = "sleep" => retry_delay <= retry_args.max_delay

-----------------------------------------------------------------------------
(* Properties of OCRWorker.process_image                                   *)

\* C24: a process_image call makes at most 2 recognition attempts, the
\* second only if the recognition of the first failed; when both fail it
\* raises PDFParsingError with the failure of the recognition as its
\* original_error, and when an attempt's recognition succeeds it returns
\* that attempt's fragments and makes no further attempt.
C24_TwoAttempts ==
    \A t \in DOMAIN runs :
        LET r == runs[t]
            n == Len(r.attempts)
        IN  /\ n <= 2
            /\ \A k \in 1..(n - 1) : r.attempts[k] # "ok"
            /\ r.pc = "done" =>
                   /\ n >= 1
                   /\ IF r.attempts[n] = "ok"
                      THEN /\ r.ended.outcome = "returned"
                           /\ r.ended.value = n - 1
                      ELSE /\ n = 2
                           /\ r.ended.outcome = "raised"
                           /\ r.ended.exc = "PDFParsingError"
                           /\ r.ended.original_error = r.attempts[n]

=============================================================================
